---- MODULE Spec2Model ----
(***************************************************************************)
(* A model of jr's job registry (db/db.go), of its systemd bridge          *)
(* (systemd.GetStateString, ShowUnits, parseShowOutput, sanitizeName,      *)
(* GenerateUnitName) and of the commands that use them: list, status,      *)
(* prune, stop, rm, logs, and run with its attach session.                 *)
(*                                                                         *)
(* Text values on which the code works character by character (unit names, *)
(* job names, the token given to FindJobByPartial) are sequences of        *)
(* one-character strings; values the code only compares as a whole (states,*)
(* systemd properties) are plain strings.  Timestamps are whole seconds,   *)
(* which is what time.RFC3339 keeps of time.Now(); the clock itself runs   *)
(* in ticks of 1/TicksPerSec second.                                       *)
(***************************************************************************)
EXTENDS Integers, Sequences, FiniteSets, TLC

VARIABLES
    jobs,   \* the rows of table jobs: a set of Job records
    seq,    \* sqlite_sequence of table jobs: the largest rowid ever assigned
    had,    \* the units of all rows the table ever held (history)
    now,    \* the wall clock, in ticks
    ret,    \* the last db call: its arguments, result and the rows before it
    info,   \* the UnitInfo handed to GetStateString next
    out,    \* the last GetStateString call: its argument and result
    san,    \* the last sanitizeName call: its argument and result
    gen,    \* the last GenerateUnitName calls: name, tick, entropy and result
    rd,     \* the last run of a one-step command (list, status, prune)
    run,    \* the jr run command in progress: where runRun is and what it holds
    sup,    \* systemd: the units that are loaded, the units ever started
    att     \* the attach session of run: sigChan, logDone, journalctl, the lines shown

storeVars == <<jobs, seq, had, now, ret>>
stateVars == <<info, out, san, gen>>
runVars == <<run, sup, att>>
cmdVars == <<rd, runVars>>
vars == <<jobs, seq, had, now, ret, info, out, san, gen, rd, run, sup, att>>

---------------------------------------------------------------------------
(* Bounds of the model. *)

MaxJobs == 2        \* successful inserts per behaviour
MaxTick == 3        \* last clock tick
MaxLines == 2       \* lines journalctl prints in one attach session
MaxName == 3        \* runes of a name given to sanitizeName

(* time.RFC3339 has a resolution of one second: ticks per second. *)
TicksPerSec == 2

---------------------------------------------------------------------------
(* Characters and strings. *)

Min(a, b) == IF a < b THEN a ELSE b

Range(s) == {s[i] : i \in 1..Len(s)}

DigitChars == <<"0", "1", "2", "3", "4", "5", "6", "7", "8", "9">>
UpperChars == <<"A", "B", "C", "D", "E", "F", "G", "H", "I", "J", "K", "L", "M",
                "N", "O", "P", "Q", "R", "S", "T", "U", "V", "W", "X", "Y", "Z">>
LowerChars == <<"a", "b", "c", "d", "e", "f", "g", "h", "i", "j", "k", "l", "m",
                "n", "o", "p", "q", "r", "s", "t", "u", "v", "w", "x", "y", "z">>

IsDigit(c) == c \in Range(DigitChars)
DigitVal(c) == (CHOOSE i \in 1..Len(DigitChars) : DigitChars[i] = c) - 1

(* strconv.Itoa / fmt "%d" of a non-negative number. *)
RECURSIVE Itoa(_)
Itoa(n) ==
    IF n < 10 THEN <<DigitChars[n + 1]>>
    ELSE Itoa(n \div 10) \o <<DigitChars[(n % 10) + 1]>>

(* sql.NullString *)
NullString == [String |-> "", Valid |-> FALSE]
ValidString(s) == [String |-> s, Valid |-> TRUE]

(* time.Time.UTC().Format(time.RFC3339): the whole second of a tick. *)
FormatRFC3339(t) == t \div TicksPerSec

---------------------------------------------------------------------------
(* Inputs of the db calls. *)

(* Unit names as systemd.GenerateUnitName builds them: unitPrefix "jr-"
   followed by the rest of the name. *)
unitPrefix == <<"j", "r", "-">>
UnitName(i) == unitPrefix \o <<LowerChars[i]>>
Units == {UnitName(i) : i \in 1..MaxJobs}

(* The units a caller may hand to CreateJob: one generated earlier, or the
   next new one. *)
UnitsSoFar == {UnitName(i) : i \in 1..Min(seq + 1, MaxJobs)}

Names == {<<"a", "b">>, <<"A", "b">>, <<"b">>}
Prefixes == {<<"a">>, <<"b">>, <<"_">>, <<"%">>}
States == {"stopped", "failed"}
Ids == 1..MaxJobs
Keeps == (-1)..MaxJobs
Limits == (-1)..MaxJobs
OlderThans == 0..MaxTick

(* Tokens given to FindJobByPartial: the ids and units a store can hold, an
   id no store holds, and tokens that are neither. *)
Tokens ==
    {Itoa(i) : i \in 0..(MaxJobs + 1)} \cup Units
        \cup {<<>>, <<"a">>, <<"a", "1">>, <<"1", "a">>, <<"2", "-", "j">>,
              <<"-", "1">>, <<"+", "1">>, <<" ", "1">>, <<"1", "_">>,
              <<"_", "1">>, <<"1", " ">>, <<"-">>}

(* Mutant of Job: the INSERT also fills last_known_state. *)
Job_StateFilled(id, created, name, unit) ==
    [ID |-> id, CreatedAtUTC |-> created, Name |-> name, Unit |-> unit,
     LastKnownState |-> [String |-> "running", Valid |-> TRUE],
     LastStateAtUTC |-> [String |-> "", Valid |-> FALSE]]

(* type Job struct, the columns the registry logic reads or writes. *)
Job(id, created, name, unit) ==
    [ID |-> id, CreatedAtUTC |-> created, Name |-> name, Unit |-> unit,
     LastKnownState |-> NullString, LastStateAtUTC |-> NullString]

---------------------------------------------------------------------------
(* The db calls run one at a time: ret holds the call that has run and whose
   result the caller has not taken yet. *)
NoCall == [op |-> "none", err |-> FALSE]
Idle == ret = NoCall

(* Queries. A *Job result is <<>> for nil and <<j>> for a row. *)

Row(S) == IF S = {} THEN <<>> ELSE <<CHOOSE j \in S : TRUE>>

GetJobByID(id) == Row({j \in jobs : j.ID = id})

GetJobByUnit(unit) == Row({j \in jobs : j.Unit = unit})

(* fmt.Sscanf(s, "%d", &id): skips leading blanks, takes an optional sign and
   the longest run of the scanner's decimal digits ("0123456789_"), hands
   that to strconv.ParseInt (base 10, where "_" is a syntax error), and never
   looks at what follows the run. *)
RECURSIVE SkipSpace(_)
SkipSpace(s) == IF s # <<>> /\ Head(s) = " " THEN SkipSpace(Tail(s)) ELSE s

RECURSIVE ScanNumber(_)
ScanNumber(s) ==
    IF s # <<>> /\ (IsDigit(Head(s)) \/ Head(s) = "_")
    THEN <<Head(s)>> \o ScanNumber(Tail(s))
    ELSE <<>>

RECURSIVE DecimalValue(_)
DecimalValue(tok) ==
    IF tok = <<>> THEN 0
    ELSE 10 * DecimalValue(SubSeq(tok, 1, Len(tok) - 1)) + DigitVal(tok[Len(tok)])

parseInt(s) ==
    LET t == SkipSpace(s)
        neg == t # <<>> /\ Head(t) = "-"
        signed == t # <<>> /\ Head(t) \in {"+", "-"}
        tok == ScanNumber(IF signed THEN Tail(t) ELSE t)
    IN  IF tok = <<>> \/ "_" \in Range(tok)
        THEN [err |-> TRUE, id |-> 0]
        ELSE [err |-> FALSE,
              id |-> IF neg THEN 0 - DecimalValue(tok) ELSE DecimalValue(tok)]

(* The *Job FindJobByPartial returns. *)
FoundJob(partial) ==
    LET p == parseInt(partial)
    IN  IF ~p.err THEN GetJobByID(p.id) ELSE GetJobByUnit(partial)

FindJobByPartial(partial) ==
    LET p == parseInt(partial)
    IN  /\ Idle
        /\ ret' = [op |-> "FindJobByPartial", partial |-> partial,
                   lookup |-> IF ~p.err THEN "id" ELSE "unit",
                   key |-> IF ~p.err THEN <<p.id>> ELSE partial,
                   job |-> FoundJob(partial),
                   err |-> FALSE]
        /\ UNCHANGED <<jobs, seq, had, now>>
        /\ UNCHANGED <<stateVars, cmdVars>>

(* Mutant of OrderBy: ORDER BY created_at_utc ASC. *)
OrderBy_Ascending(S) ==
    {o \in [1..Cardinality(S) -> S] :
        /\ \A i, k \in 1..Cardinality(S) : i # k => o[i] # o[k]
        /\ \A i, k \in 1..Cardinality(S) :
              i < k => o[i].CreatedAtUTC <= o[k].CreatedAtUTC}

(* ORDER BY created_at_utc DESC: the rows of S in an order SQLite may return
   them; rows with the same timestamp come in any order. *)
OrderBy(S) ==
    {o \in [1..Cardinality(S) -> S] :
        /\ \A i, k \in 1..Cardinality(S) : i # k => o[i] # o[k]
        /\ \A i, k \in 1..Cardinality(S) :
              i < k => o[i].CreatedAtUTC >= o[k].CreatedAtUTC}

(* Mutant of Limit: one row too many. *)
Limit_OneMore(rows, n) ==
    IF n < 0 THEN rows ELSE SubSeq(rows, 1, Min(n + 1, Len(rows)))

(* LIMIT n: a negative n is no limit. *)
Limit(rows, n) == IF n < 0 THEN rows ELSE SubSeq(rows, 1, Min(n, Len(rows)))

ListJobs(limit, all) ==
    /\ Idle
    /\ \E o \in OrderBy(jobs) :
          ret' = [op |-> "ListJobs", limit |-> limit, all |-> all,
                  rows |-> IF all THEN o ELSE Limit(o, limit), err |-> FALSE]
    /\ UNCHANGED <<jobs, seq, had, now>>
    /\ UNCHANGED <<stateVars, cmdVars>>

(* SQLite's LIKE: "%" matches any run of characters, "_" any one character,
   and ASCII letters match without regard to case. *)
ToLower(c) ==
    IF c \in Range(UpperChars)
    THEN LowerChars[CHOOSE i \in 1..Len(UpperChars) : UpperChars[i] = c]
    ELSE c

RECURSIVE Like(_, _)
Like(s, pattern) ==
    IF pattern = <<>> THEN s = <<>>
    ELSE IF Head(pattern) = "%"
         THEN Like(s, Tail(pattern)) \/ (s # <<>> /\ Like(Tail(s), pattern))
    ELSE /\ s # <<>>
         /\ Head(pattern) = "_" \/ ToLower(Head(pattern)) = ToLower(Head(s))
         /\ Like(Tail(s), Tail(pattern))

ListJobsByName(name, limit) ==
    /\ Idle
    /\ \E o \in OrderBy({j \in jobs : Like(j.Name, name \o <<"%">>)}) :
          ret' = [op |-> "ListJobsByName", name |-> name, limit |-> limit,
                  rows |-> Limit(o, limit), err |-> FALSE]
    /\ UNCHANGED <<jobs, seq, had, now>>
    /\ UNCHANGED <<stateVars, cmdVars>>

---------------------------------------------------------------------------
(* Writes. *)

(* INSERT INTO jobs: column unit is UNIQUE, so the insert fails when a row
   holds the unit; id is AUTOINCREMENT, one more than the largest rowid the
   table ever held. Columns last_known_state and last_state_at_utc are not
   in the column list and stay NULL. *)
(* Mutant of UnitTaken: column unit without its UNIQUE constraint. *)
UnitTaken_NoConstraint(unit) == FALSE

UnitTaken(unit) == \E j \in jobs : j.Unit = unit

(* Mutant of CreateJob: id INTEGER PRIMARY KEY without AUTOINCREMENT, which
   gives one more than the largest rowid the table holds now. *)
CreateJob_NoAutoincrement(name, unit) ==
    /\ Idle
    /\ LET id == IF jobs = {} THEN 1
                 ELSE 1 + (CHOOSE m \in {j.ID : j \in jobs} :
                               \A j \in jobs : j.ID <= m)
       IN  IF UnitTaken(unit)
           THEN /\ ret' = [op |-> "CreateJob", name |-> name, unit |-> unit,
                           id |-> 0, err |-> TRUE, pre |-> jobs]
                /\ UNCHANGED <<jobs, seq, had>>
           ELSE /\ seq < MaxJobs
                /\ jobs' = jobs \cup {Job(id, FormatRFC3339(now), name, unit)}
                /\ seq' = seq + 1
                /\ had' = had \cup {unit}
                /\ ret' = [op |-> "CreateJob", name |-> name, unit |-> unit,
                           id |-> id, err |-> FALSE, pre |-> jobs]
    /\ UNCHANGED now
    /\ UNCHANGED <<stateVars, cmdVars>>

CreateJob(name, unit) ==
    /\ Idle
    /\ IF UnitTaken(unit)
       THEN /\ ret' = [op |-> "CreateJob", name |-> name, unit |-> unit,
                       id |-> 0, err |-> TRUE, pre |-> jobs]
            /\ UNCHANGED <<jobs, seq, had>>
       ELSE /\ seq < MaxJobs
            /\ jobs' = jobs \cup {Job(seq + 1, FormatRFC3339(now), name, unit)}
            /\ seq' = seq + 1
            /\ had' = had \cup {unit}
            /\ ret' = [op |-> "CreateJob", name |-> name, unit |-> unit,
                       id |-> seq + 1, err |-> FALSE, pre |-> jobs]
    /\ UNCHANGED now
    /\ UNCHANGED <<stateVars, cmdVars>>

(* Mutant of DeleteJob: "WHERE id <= ?" in place of "WHERE id = ?". *)
DeleteJob_UpTo(id) ==
    /\ Idle
    /\ jobs' = {j \in jobs : j.ID > id}
    /\ ret' = [op |-> "DeleteJob", id |-> id, err |-> FALSE, pre |-> jobs]
    /\ UNCHANGED <<seq, had, now>>
    /\ UNCHANGED <<stateVars, cmdVars>>

(* DELETE FROM jobs WHERE id = ?; the error is that of Exec alone, and a
   statement that matches no row is not one. *)
DeleteJob(id) ==
    /\ Idle
    /\ jobs' = {j \in jobs : j.ID # id}
    /\ ret' = [op |-> "DeleteJob", id |-> id, err |-> FALSE, pre |-> jobs]
    /\ UNCHANGED <<seq, had, now>>
    /\ UNCHANGED <<stateVars, cmdVars>>

(* Mutant of PruneWhere: the conditions joined with OR. *)
PruneWhere_AnyFilter(j, keep, keepIds, olderThan, cutoff, failedOnly) ==
    \/ keep > 0 /\ j.ID \notin keepIds
    \/ olderThan > 0 /\ j.CreatedAtUTC < cutoff
    \/ failedOnly /\ j.LastKnownState.Valid /\ j.LastKnownState.String = "failed"

(* Mutant of PruneWhere: the keep condition is added only when no other
   filter is active. *)
PruneWhere_KeepAlone(j, keep, keepIds, olderThan, cutoff, failedOnly) ==
    /\ (keep > 0 /\ ~(olderThan > 0) /\ ~failedOnly) => j.ID \notin keepIds
    /\ olderThan > 0 => j.CreatedAtUTC < cutoff
    /\ failedOnly => j.LastKnownState.Valid /\ j.LastKnownState.String = "failed"

(* The WHERE clause PruneJobs builds: the conjunction of the conditions of
   the filters that are active. keepIds are the ids the subquery
   "SELECT id FROM jobs ORDER BY created_at_utc DESC LIMIT keep" returned. *)
PruneWhere(j, keep, keepIds, olderThan, cutoff, failedOnly) ==
    /\ keep > 0 => j.ID \notin keepIds
    /\ olderThan > 0 => j.CreatedAtUTC < cutoff
    /\ failedOnly => j.LastKnownState.Valid /\ j.LastKnownState.String = "failed"

(* Mutant of PruneLeaves: no early return when no condition was added, so the
   DELETE runs without a WHERE clause. *)
PruneLeaves_NoEarlyReturn(S, keep, keepIds, olderThan, cutoff, failedOnly) ==
    IF ~(keep > 0) /\ ~(olderThan > 0) /\ ~failedOnly
    THEN {}
    ELSE {j \in S : ~(/\ keep > 0 => j.ID \notin keepIds
                      /\ olderThan > 0 => j.CreatedAtUTC < cutoff
                      /\ failedOnly => j.LastKnownState.Valid
                                          /\ j.LastKnownState.String = "failed")}

(* The rows left by PruneJobs: all of them when len(conditions) == 0, else
   those the DELETE does not match. *)
PruneLeaves(S, keep, keepIds, olderThan, cutoff, failedOnly) ==
    IF ~(keep > 0) /\ ~(olderThan > 0) /\ ~failedOnly
    THEN S
    ELSE {j \in S : ~PruneWhere(j, keep, keepIds, olderThan, cutoff, failedOnly)}

(* The stores PruneJobs may leave, one for each order the subquery may
   return the rows in. *)
PruneOutcomes(keep, olderThan, failedOnly) ==
    {LET top == Limit(o, keep)
         keepIds == {top[i].ID : i \in 1..Len(top)}
         cutoff == FormatRFC3339(now - olderThan)
     IN  PruneLeaves(jobs, keep, keepIds, olderThan, cutoff, failedOnly)
        : o \in OrderBy(jobs)}

PruneJobs(keep, olderThan, failedOnly) ==
    /\ Idle
    /\ jobs' \in PruneOutcomes(keep, olderThan, failedOnly)
    /\ ret' = [op |-> "PruneJobs", keep |-> keep, olderThan |-> olderThan,
               failedOnly |-> failedOnly, err |-> FALSE, pre |-> jobs]
    /\ UNCHANGED <<seq, had, now>>
    /\ UNCHANGED <<stateVars, cmdVars>>

(* Mutant of StateUpdated: the state written is "failed". *)
StateUpdated_Failed(S, id, state) ==
    {IF j.ID = id
     THEN [j EXCEPT !.LastKnownState = ValidString("failed"),
                    !.LastStateAtUTC = ValidString(FormatRFC3339(now))]
     ELSE j : j \in S}

(* The rows after UPDATE jobs SET last_known_state = ?, last_state_at_utc = ?
   WHERE id = ? with the state and time.Now().UTC().Format(time.RFC3339). *)
StateUpdated(S, id, state) ==
    {IF j.ID = id
     THEN [j EXCEPT !.LastKnownState = ValidString(state),
                    !.LastStateAtUTC = ValidString(FormatRFC3339(now))]
     ELSE j : j \in S}

(* Mutant of UpdateJobState: the UPDATE without its WHERE clause. *)
UpdateJobState_AllRows(id, state) ==
    /\ Idle
    /\ jobs' = {[j EXCEPT !.LastKnownState = ValidString(state),
                          !.LastStateAtUTC = ValidString(FormatRFC3339(now))]
                : j \in jobs}
    /\ ret' = [op |-> "UpdateJobState", id |-> id, state |-> state,
               err |-> FALSE, pre |-> jobs]
    /\ UNCHANGED <<seq, had, now>>
    /\ UNCHANGED <<stateVars, cmdVars>>

(* Mutant of UpdateJobState: the UPDATE also sets created_at_utc. *)
UpdateJobState_SetsCreatedAt(id, state) ==
    /\ Idle
    /\ jobs' = {IF j.ID = id
                THEN [j EXCEPT !.LastKnownState = ValidString(state),
                               !.LastStateAtUTC = ValidString(FormatRFC3339(now)),
                               !.CreatedAtUTC = FormatRFC3339(now)]
                ELSE j : j \in jobs}
    /\ ret' = [op |-> "UpdateJobState", id |-> id, state |-> state,
               err |-> FALSE, pre |-> jobs]
    /\ UNCHANGED <<seq, had, now>>
    /\ UNCHANGED <<stateVars, cmdVars>>

(* UpdateJobState: the error is that of Exec alone, and an UPDATE that
   matches no row returns nil. *)
UpdateJobState(id, state) ==
    /\ Idle
    /\ jobs' = StateUpdated(jobs, id, state)
    /\ ret' = [op |-> "UpdateJobState", id |-> id, state |-> state,
               err |-> FALSE, pre |-> jobs]
    /\ UNCHANGED <<seq, had, now>>
    /\ UNCHANGED <<stateVars, cmdVars>>

(* The caller takes the result; the next call can start. *)
Return ==
    /\ ~Idle
    /\ ret' = NoCall
    /\ UNCHANGED <<jobs, seq, had, now>>
    /\ UNCHANGED <<stateVars, cmdVars>>

(* Time passes between two calls. *)
Tick ==
    /\ Idle
    /\ now < MaxTick
    /\ now' = now + 1
    /\ UNCHANGED <<jobs, seq, had, ret>>
    /\ UNCHANGED <<stateVars, cmdVars>>

---------------------------------------------------------------------------
(* systemd.GetStateString *)

ActiveStates == {"active", "inactive", "failed", "activating", "deactivating", ""}
ExitStatuses == {"", "0", "1", "203"}
SubStates == {"", "running", "dead"}
MainPIDs == {"0", "12345"}
Timestamps == {"", "Mon 2024-01-01 12:00:00 UTC"}

(* type UnitInfo struct, the properties of one unit. *)
UnitInfos ==
    [Unit : Units, ActiveState : ActiveStates, SubState : SubStates,
     ExecMainStatus : ExitStatuses, ExecMainPID : MainPIDs,
     ExecMainStartTimestamp : Timestamps, ExecMainExitTimestamp : Timestamps]

(* Mutant of GetStateString: the exit status is not looked at. *)
GetStateString_NoExitStatus(i) ==
    IF i.ActiveState = "active" THEN "active"
    ELSE IF i.ActiveState = "inactive" THEN "exited"
    ELSE IF i.ActiveState = "failed" THEN "failed"
    ELSE i.ActiveState

GetStateString(i) ==
    IF i.ActiveState = "active" THEN "active"
    ELSE IF i.ActiveState = "inactive"
         THEN IF i.ExecMainStatus # "" /\ i.ExecMainStatus # "0"
              THEN "failed"
              ELSE "exited"
    ELSE IF i.ActiveState = "failed" THEN "failed"
    ELSE i.ActiveState

NoOut == [called |-> FALSE]

(* One call of GetStateString on the pending snapshot. *)
CallGetStateString ==
    /\ out = NoOut
    /\ out' = [called |-> TRUE, info |-> info, state |-> GetStateString(info)]
    /\ UNCHANGED <<info, san, gen>>
    /\ UNCHANGED <<storeVars, cmdVars>>

(* The caller takes the state; systemd reports another snapshot. *)
NextSnapshot ==
    /\ out # NoOut
    /\ out' = NoOut
    /\ info' \in UnitInfos
    /\ UNCHANGED <<san, gen>>
    /\ UNCHANGED <<storeVars, cmdVars>>

---------------------------------------------------------------------------
(* Unit names: systemd.sanitizeName and systemd.GenerateUnitName. A name is
   the sequence of runes "for _, r := range name" yields; a rune outside
   ASCII is written "U+" and its code point. *)

(* Runes of every case of the switch in sanitizeName. *)
NameChars == {"a", "Z", "9", ".", "-", "_", " ", "U+00C9"}

(* The names given to sanitizeName: all of at most MaxName runes. *)
SanNames == UNION {[1..n -> NameChars] : n \in 0..MaxName}

(* Mutant of sanitizeRune: the letter cases swapped. *)
sanitizeRune_TogglesCase(r) ==
    IF r \in Range(LowerChars)
    THEN UpperChars[CHOOSE i \in 1..Len(LowerChars) : LowerChars[i] = r]
    ELSE IF r \in Range(UpperChars)
    THEN LowerChars[CHOOSE i \in 1..Len(UpperChars) : UpperChars[i] = r]
    ELSE IF IsDigit(r) THEN r
    ELSE IF r \in {".", "-", "_"} THEN r
    ELSE "_"

(* The switch of sanitizeName: what is written for the rune r. The case
   'A'..'Z' writes r + ('a' - 'A'). *)
sanitizeRune(r) ==
    IF r \in Range(LowerChars) THEN r
    ELSE IF r \in Range(UpperChars)
    THEN LowerChars[CHOOSE i \in 1..Len(UpperChars) : UpperChars[i] = r]
    ELSE IF IsDigit(r) THEN r
    ELSE IF r \in {".", "-", "_"} THEN r
    ELSE "_"

(* Mutant of sanitizeName: runes of the default case are left out. *)
sanitizeName_DropsOthers(name) ==
    LET Kept(r) == r \in Range(LowerChars) \cup Range(UpperChars)
                          \cup Range(DigitChars) \cup {".", "-", "_"}
        kept == SelectSeq(name, Kept)
    IN  [i \in 1..Len(kept) |-> sanitizeRune(kept[i])]

sanitizeName(name) == [i \in 1..Len(name) |-> sanitizeRune(name[i])]

NoSan == [called |-> FALSE]

(* One call of sanitizeName. *)
CallSanitizeName(name) ==
    /\ san = NoSan
    /\ gen = <<>>
    /\ san' = [called |-> TRUE, name |-> name, result |-> sanitizeName(name)]
    /\ UNCHANGED <<info, out, gen>>
    /\ UNCHANGED <<storeVars, cmdVars>>

(* The caller takes the result. *)
SanitizeDone ==
    /\ san # NoSan
    /\ san' = NoSan
    /\ UNCHANGED <<info, out, gen>>
    /\ UNCHANGED <<storeVars, cmdVars>>

(* ulid.Make().String(): the time in milliseconds in a fixed number of
   characters, then the entropy. The library writes 10 and 16 characters of
   base 32; here the clock tick in TimeLen decimal digits and EntropyLen
   binary digits, and ShortLen for the 16 characters GenerateUnitName
   keeps. *)
TimeLen == 2
EntropyLen == 2
ShortLen == 3
Entropies == [1..EntropyLen -> {"0", "1"}]

(* n in two decimal digits (n < 100). *)
Pad2(n) == <<DigitChars[(n \div 10) + 1], DigitChars[(n % 10) + 1]>>

ulidString(ms, entropy) == Pad2(ms) \o entropy

(* Mutant of shortID: String()[:8] as GenerateUnitName took it earlier,
   which is less than the time part. *)
shortID_TimeOnly(ms, entropy) == SubSeq(ulidString(ms, entropy), 1, TimeLen - 1)

(* ulid.Make().String()[:16]: the time part and the first 6 of the 16
   characters of entropy; here the time part and the first entropy digit. *)
shortID(ms, entropy) == SubSeq(ulidString(ms, entropy), 1, ShortLen)

(* time.Now().UTC().Format("20060102-150405"): the second of the tick. *)
FormatSecond(t) == Pad2(t \div TicksPerSec)

(* GenerateUnitName(name) called at tick t when ulid.Make draws entropy. *)
GenerateUnitName(name, t, entropy) ==
    unitPrefix \o sanitizeName(name) \o <<"-">> \o FormatSecond(t) \o <<"-">>
        \o shortID(t, entropy) \o <<".", "s", "e", "r", "v", "i", "c", "e">>

(* The names GenerateUnitName is called with. *)
GenNames == {<<"a">>, <<"Z">>, <<"a", " ">>, <<"a", "_">>}

(* One call of GenerateUnitName; gen keeps the last two calls. *)
CallGenerateUnitName(name, entropy) ==
    /\ san = NoSan
    /\ Len(gen) < 2
    /\ gen' = Append(gen, [name |-> name, at |-> now, entropy |-> entropy,
                           unit |-> GenerateUnitName(name, now, entropy)])
    /\ UNCHANGED <<info, out, san>>
    /\ UNCHANGED <<storeVars, cmdVars>>

(* The calls are forgotten. *)
GenForget ==
    /\ gen # <<>>
    /\ gen' = <<>>
    /\ UNCHANGED <<info, out, san>>
    /\ UNCHANGED <<storeVars, cmdVars>>

---------------------------------------------------------------------------
(* The read paths: systemd.ShowUnits, systemd.ShowUnit, cmd.runList and
   cmd.runStatus. *)

(* A line of "systemctl show": key=value, or the empty line that separates
   the units. A line that starts with none of the prefixes parseShowOutput
   knows has the key "Other". *)
EmptyLine == [key |-> "", val |-> ""]
Line(k, v) == [key |-> k, val |-> v]

(* What systemctl prints for one unit. *)
Blocks ==
    {<<>>,
     <<Line("ActiveState", "active"), Line("SubState", "running"),
       Line("ExecMainStatus", "0"), Line("ExecMainPID", "12345"),
       Line("ExecMainStartTimestamp", "Mon 2024-01-01 12:00:00 UTC"),
       Line("ExecMainExitTimestamp", "")>>,
     <<Line("ActiveState", "inactive"), Line("SubState", "dead"),
       Line("ExecMainStatus", "1"), Line("ExecMainPID", "0"),
       Line("ExecMainStartTimestamp", ""),
       Line("ExecMainExitTimestamp", "Mon 2024-01-01 13:00:00 UTC"),
       Line("Other", "x")>>,
     <<Line("ActiveState", "failed")>>}

(* The outputs of at most n blocks, an empty line between two blocks. *)
RECURSIVE Outputs(_)
Outputs(n) ==
    IF n = 0 THEN {<<>>}
    ELSE Outputs(n - 1) \cup Blocks
            \cup {o \o <<EmptyLine>> \o b : o \in Outputs(n - 1), b \in Blocks}

(* The run of systemctl: it fails (cmd.Output returns an error) or prints. *)
Systemctl ==
    {[err |-> TRUE, output |-> <<>>]}
        \cup {[err |-> FALSE, output |-> o] : o \in Outputs(MaxJobs)}

(* &UnitInfo{Unit: unit} *)
ZeroInfo(unit) ==
    [Unit |-> unit, ActiveState |-> "", SubState |-> "", ExecMainStatus |-> "",
     ExecMainPID |-> "", ExecMainStartTimestamp |-> "",
     ExecMainExitTimestamp |-> ""]

(* The body of parseShowOutput's loop, the lines taken one after the other;
   idx is unitIdx + 1. An entry of result is there for every unit, so the
   read of result[units[idx]] always finds one. *)
RECURSIVE parseLines(_, _, _, _)
parseLines(lines, units, idx, result) ==
    IF lines = <<>> THEN result
    ELSE LET line == Head(lines)
             u == units[idx]
             i == IF u \in DOMAIN result THEN result[u] ELSE ZeroInfo(u)
             set == IF line.key = "ActiveState"
                        THEN [i EXCEPT !.ActiveState = line.val]
                    ELSE IF line.key = "SubState"
                        THEN [i EXCEPT !.SubState = line.val]
                    ELSE IF line.key = "ExecMainStatus"
                        THEN [i EXCEPT !.ExecMainStatus = line.val]
                    ELSE IF line.key = "ExecMainPID"
                        THEN [i EXCEPT !.ExecMainPID = line.val]
                    ELSE IF line.key = "ExecMainStartTimestamp"
                        THEN [i EXCEPT !.ExecMainStartTimestamp = line.val]
                    ELSE IF line.key = "ExecMainExitTimestamp"
                        THEN [i EXCEPT !.ExecMainExitTimestamp = line.val]
                    ELSE i
         IN  IF line = EmptyLine
             THEN parseLines(Tail(lines), units, Min(idx + 1, Len(units)), result)
             ELSE parseLines(Tail(lines), units, idx,
                             [x \in DOMAIN result \cup {u} |->
                                 IF x = u THEN set ELSE result[x]])

(* Mutant of parseShowOutput, its earlier version: a line goes to the first
   unit, in the order of the request, whose field is still empty; empty
   lines are not looked at, and only the three fields of the state are
   taken. *)
RECURSIVE parseFirstEmpty(_, _, _)
parseFirstEmpty(lines, units, result) ==
    IF lines = <<>> THEN result
    ELSE LET line == Head(lines)
             Empty(i) ==
                 \/ line.key = "ExecMainStatus" /\ result[units[i]].ExecMainStatus = ""
                 \/ line.key = "ActiveState" /\ result[units[i]].ActiveState = ""
                 \/ line.key = "SubState" /\ result[units[i]].SubState = ""
         IN  IF \E i \in 1..Len(units) : Empty(i)
             THEN LET i == CHOOSE i \in 1..Len(units) :
                               Empty(i) /\ \A k \in 1..(i - 1) : ~Empty(k)
                      u == units[i]
                  IN  parseFirstEmpty(Tail(lines), units,
                         [result EXCEPT ![u] =
                             IF line.key = "ExecMainStatus"
                                 THEN [@ EXCEPT !.ExecMainStatus = line.val]
                             ELSE IF line.key = "ActiveState"
                                 THEN [@ EXCEPT !.ActiveState = line.val]
                             ELSE [@ EXCEPT !.SubState = line.val]])
             ELSE parseFirstEmpty(Tail(lines), units, result)

parseShowOutput_FirstEmpty(output, units) ==
    parseFirstEmpty(output, units, [u \in Range(units) |-> ZeroInfo(u)])

(* Mutant of parseShowOutput: no entry is made before the lines are read. *)
parseShowOutput_NoPrefill(output, units) ==
    parseLines(output, units, 1, <<>>)

(* map[string]*UnitInfo as a function from the keys to the snapshots. *)
parseShowOutput(output, units) ==
    parseLines(output, units, 1, [u \in Range(units) |-> ZeroInfo(u)])

(* ShowUnits(units) when the run of systemctl is sys. infos is the map;
   with err it is nil, which reads like the empty map. *)
ShowUnits(units, sys) ==
    IF Len(units) = 0 THEN [err |-> FALSE, infos |-> <<>>]
    ELSE IF sys.err THEN [err |-> TRUE, infos |-> <<>>]
    ELSE [err |-> FALSE, infos |-> parseShowOutput(sys.output, units)]

(* ShowUnit(unit): info is <<>> for nil. *)
ShowUnit(unit, sys) ==
    LET r == ShowUnits(<<unit>>, sys)
    IN  IF r.err THEN [err |-> TRUE, info |-> <<>>]
        ELSE IF unit \notin DOMAIN r.infos THEN [err |-> TRUE, info |-> <<>>]
        ELSE [err |-> FALSE, info |-> <<r.infos[unit]>>]

NoRead == [op |-> "none", err |-> FALSE]

(* A direct call of ShowUnits. *)
CallShowUnits(units, sys) ==
    /\ rd = NoRead
    /\ rd' = [op |-> "ShowUnits", units |-> units, sys |-> sys,
              err |-> ShowUnits(units, sys).err,
              infos |-> ShowUnits(units, sys).infos]
    /\ UNCHANGED <<storeVars, stateVars, runVars>>

(* Mutant of ListState: a row with a last_known_state shows that state. *)
ListState_PrefersCache(job, unitInfos) ==
    IF job.LastKnownState.Valid THEN job.LastKnownState.String
    ELSE IF job.Unit \in DOMAIN unitInfos
    THEN GetStateString(unitInfos[job.Unit])
    ELSE "unknown"

(* The state outputListJSON and outputListTable give a job. *)
ListState(job, unitInfos) ==
    IF job.Unit \in DOMAIN unitInfos
    THEN GetStateString(unitInfos[job.Unit])
    ELSE "unknown"

(* jr list [--last n | --all]: rows are the jobs ListJobs returned, states
   the state printed for each of them. *)
runList(listLast, listAll, sys) ==
    /\ rd = NoRead
    /\ \E o \in OrderBy(jobs) :
          LET rows == IF listAll THEN o ELSE Limit(o, listLast)
              units == [i \in 1..Len(rows) |-> rows[i].Unit]
              r == ShowUnits(units, sys)
              unitInfos == r.infos
          IN  rd' = [op |-> "runList", rows |-> rows, sys |-> sys,
                     queried |-> Len(rows) # 0,
                     queryFailed |-> r.err,
                     infos |-> unitInfos,
                     states |-> [i \in 1..Len(rows) |->
                                    ListState(rows[i], unitInfos)],
                     err |-> FALSE]
    /\ UNCHANGED <<storeVars, stateVars, runVars>>

(* jr status <id|unit> *)
runStatus(token, sys) ==
    /\ rd = NoRead
    /\ LET job == FoundJob(token)
           r == ShowUnit(job[1].Unit, sys)
           i == IF r.err THEN ZeroInfo(job[1].Unit) ELSE r.info[1]
       IN  IF job = <<>>
           THEN rd' = [op |-> "runStatus", token |-> token, sys |-> sys,
                       rows |-> <<>>, queried |-> FALSE, queryFailed |-> FALSE,
                       infos |-> <<>>, states |-> <<>>, err |-> TRUE]
           ELSE rd' = [op |-> "runStatus", token |-> token, sys |-> sys,
                       rows |-> job, queried |-> TRUE, queryFailed |-> r.err,
                       infos |-> [u \in {job[1].Unit} |-> i],
                       states |-> <<GetStateString(i)>>, err |-> FALSE]
    /\ UNCHANGED <<storeVars, stateVars, runVars>>

(* The command has ended; the next one can start. *)
ReadDone ==
    /\ rd # NoRead
    /\ rd' = NoRead
    /\ UNCHANGED <<storeVars, stateVars, runVars>>

---------------------------------------------------------------------------
(* jr run: cmd.runRun, with the attach session of --attach. *)

(* Values of --env and --property: with a "=", and without one. *)
KeyValue == <<"k", "=", "v">>
KeyOnly == <<"k", "v">>
EnvLists == {<<>>, <<KeyValue>>, <<KeyOnly>>, <<KeyValue, KeyOnly>>}
PropertyLists == {<<>>, <<KeyValue>>, <<KeyOnly>>}

(* strings.SplitN(e, "=", 2): e cut at its first "=", or e alone. *)
SplitN2(e) ==
    IF \E i \in 1..Len(e) : e[i] = "="
    THEN LET i == CHOOSE i \in 1..Len(e) :
                      e[i] = "=" /\ \A k \in 1..(i - 1) : e[k] # "="
         IN  <<SubSeq(e, 1, i - 1), SubSeq(e, i + 1, Len(e))>>
    ELSE <<e>>

(* Mutant of ValidTuples: len(parts) is not looked at. *)
ValidTuples_Unchecked(list) == TRUE

(* The loops over runEnv and runProperties: every value has two parts. *)
ValidTuples(list) == \A i \in 1..Len(list) : Len(SplitN2(list[i])) = 2

(* A request to systemd. *)
Request(op, unit) == [op |-> op, unit |-> unit]

NoRun ==
    [pc |-> "idle", runEnv |-> <<>>, runProperties |-> <<>>, runAttach |-> FALSE,
     unit |-> <<>>, trace |-> <<>>, reqs |-> <<>>, id |-> 0, err |-> FALSE,
     outcome |-> "", ready |-> {}, paths |-> <<>>, pre |-> {}, shown |-> 0]

NoAttach ==
    [notify |-> FALSE, sigChan |-> 0, logDone |-> <<>>, journalctl |-> "none",
     shown |-> 0, logs |-> <<>>, sent |-> 0]

(* runRun up to the call of StartUnit: the tuples are checked, then
   GenerateUnitName draws the unit. Its random part may give a unit that was
   given before. One command runs at a time, and no run starts once MaxJobs
   rows were inserted. *)
RunStart(runEnv, runProperties, runAttach) ==
    /\ run.pc = "idle"
    /\ Idle
    /\ rd = NoRead
    /\ seq < MaxJobs
    /\ LET r == [NoRun EXCEPT !.runEnv = runEnv, !.runProperties = runProperties,
                              !.runAttach = runAttach, !.pre = jobs]
       IN  IF ~ValidTuples(runEnv)
           THEN run' = [r EXCEPT !.pc = "done", !.err = TRUE,
                                 !.outcome = "invalid env format"]
           ELSE IF ~ValidTuples(runProperties)
           THEN run' = [r EXCEPT !.pc = "done", !.err = TRUE,
                                 !.outcome = "invalid property format"]
           ELSE \E unit \in UnitsSoFar :
                   run' = [r EXCEPT !.pc = "launch", !.unit = unit,
                                    !.trace = <<"generate">>]
    /\ UNCHANGED <<sup, att, rd>>
    /\ UNCHANGED <<storeVars, stateVars>>

(* Mutant of AfterStartUnit: the error of StartUnit is dropped. *)
AfterStartUnit_ErrorDropped(err) == "persist"

(* Where runRun goes after StartUnit. *)
AfterStartUnit(err) == IF err THEN "done" ELSE "persist"

(* systemd.StartUnit: systemd-run starts the unit or fails; it fails when a
   unit of that name is loaded. *)
RunLaunch ==
    /\ run.pc = "launch"
    /\ \E err \in BOOLEAN :
          /\ run.unit \in sup.active => err
          /\ sup' = IF err THEN sup
                    ELSE [active |-> sup.active \cup {run.unit},
                          started |-> sup.started \cup {run.unit}]
          /\ run' = [run EXCEPT
                        !.pc = AfterStartUnit(err),
                        !.trace = Append(@, "launch"),
                        !.reqs = Append(@, Request("launch", run.unit)),
                        !.err = err,
                        !.outcome = IF err THEN "failed to start unit" ELSE @]
    /\ UNCHANGED <<att, rd>>
    /\ UNCHANGED <<storeVars, stateVars>>

(* Mutant of OnRecordFailure: the unit is stopped again. *)
OnRecordFailure_Rollback(unit) == <<Request("stop", unit)>>

(* The requests runRun sends when CreateJob failed: none. *)
OnRecordFailure(unit) == <<>>

(* db.CreateJob, then "Started", then with --attach the session is set up:
   signal.Notify on sigChan and the goroutine that runs systemd.Logs. The
   INSERT fails on a unit a row holds, or when the storage fails. *)
RunPersist ==
    /\ run.pc = "persist"
    /\ \E ioErr \in BOOLEAN :
          IF UnitTaken(run.unit) \/ ioErr
          THEN /\ run' = [run EXCEPT
                            !.pc = "done", !.err = TRUE,
                            !.trace = Append(@, "persist"),
                            !.reqs = @ \o OnRecordFailure(run.unit),
                            !.outcome = "job started but failed to record"]
               /\ UNCHANGED <<jobs, seq, had, att>>
          ELSE /\ jobs' = jobs \cup
                     {Job(seq + 1, FormatRFC3339(now), <<"a", "b">>, run.unit)}
               /\ seq' = seq + 1
               /\ had' = had \cup {run.unit}
               /\ run' = [run EXCEPT
                            !.pc = IF run.runAttach THEN "select" ELSE "done",
                            !.trace = Append(@, "persist"),
                            !.id = seq + 1,
                            !.outcome = "started"]
               /\ att' = IF run.runAttach
                         THEN [NoAttach EXCEPT !.notify = TRUE,
                                               !.journalctl = "starting"]
                         ELSE att
    /\ UNCHANGED <<now, ret, sup, rd>>
    /\ UNCHANGED stateVars

---------------------------------------------------------------------------
(* The attach session: runRun waits in select for sigChan or logDone while
   the goroutine runs systemd.Logs(unit, follow). *)

(* The goroutine: exec of journalctl -f, whose output goes to the terminal. *)
LogsStart ==
    /\ att.journalctl = "starting"
    /\ att' = [att EXCEPT !.journalctl = "running"]
    /\ UNCHANGED <<run, sup, rd>>
    /\ UNCHANGED <<storeVars, stateVars>>

(* journalctl prints a line. *)
LogLine ==
    /\ att.journalctl = "running"
    /\ att.shown < MaxLines
    /\ att' = [att EXCEPT !.shown = @ + 1]
    /\ UNCHANGED <<run, sup, rd>>
    /\ UNCHANGED <<storeVars, stateVars>>

(* The cases of the select that can proceed. *)
Ready ==
    {c \in {"sigChan", "logDone"} :
        \/ c = "sigChan" /\ att.sigChan > 0
        \/ c = "logDone" /\ att.logDone # <<>>}

(* make(chan error, 1): the values logDone holds without a receiver. *)
LogDoneCap == 1

(* Mutant of SendProceeds: logDone made without a buffer. *)
SendProceeds_Unbuffered(a, r) == r.pc = "parked"

(* A send on logDone proceeds when the buffer has room or a receiver waits
   in the select. *)
SendProceeds(a, r) == Len(a.logDone) < LogDoneCap \/ r.pc = "parked"

(* journalctl ends (the stream ended, it failed, or a signal ended it) and
   cmd.Run returns; the goroutine sends the result on logDone, and is done
   when the send proceeds (sent counts the sends that did). A runRun that
   waits in select is woken for that case. *)
LogsEnd(err) ==
    /\ att.journalctl \in {"starting", "running", "signalled"}
    /\ run.pc \in {"select", "parked", "woken", "done"}
    /\ att' = IF SendProceeds(att, run)
              THEN [att EXCEPT !.journalctl = "exited", !.logDone = <<err>>,
                               !.logs = <<err>>, !.sent = @ + 1]
              ELSE [att EXCEPT !.journalctl = "exited", !.logs = <<err>>]
    /\ run' = IF run.pc = "parked"
              THEN [run EXCEPT !.pc = "woken", !.ready = {"logDone"}]
              ELSE run
    /\ UNCHANGED <<sup, rd>>
    /\ UNCHANGED <<storeVars, stateVars>>

(* SIGINT or SIGTERM reaches the process; with group it is the Ctrl+C of the
   terminal, which reaches journalctl as well. sigChan holds one signal,
   signal.Notify drops what does not fit. *)
Interrupt(group) ==
    /\ att.notify
    /\ att' = [att EXCEPT
                  !.sigChan = 1,
                  !.journalctl = IF group /\ @ = "running" THEN "signalled" ELSE @]
    /\ run' = IF run.pc = "parked"
              THEN [run EXCEPT !.pc = "woken", !.ready = {"sigChan"}]
              ELSE run
    /\ UNCHANGED <<sup, rd>>
    /\ UNCHANGED <<storeVars, stateVars>>

(* Mutant of DetachRequests: the detach stops the unit. *)
DetachRequests_StopsUnit(unit) == <<Request("stop", unit)>>

(* The requests the case <-sigChan sends to systemd: none. *)
DetachRequests(unit) == <<>>

(* Mutant of LogDoneResult: the error of the log stream is dropped. *)
LogDoneResult_Nil(err) == FALSE

(* runRun's result in the case err := <-logDone: an error when err != nil. *)
LogDoneResult(err) == err

(* One case of the select runs to its return. *)
SelectCase(r, c) ==
    IF c = "sigChan"
    THEN [r EXCEPT !.pc = "done", !.err = FALSE, !.outcome = "detached",
                   !.paths = Append(@, "sigChan"),
                   !.reqs = @ \o DetachRequests(r.unit),
                   !.shown = att.shown]
    ELSE [r EXCEPT !.pc = "done", !.err = LogDoneResult(att.logDone[1]),
                   !.outcome = "log stream ended",
                   !.paths = Append(@, "logDone"),
                   !.shown = att.shown]

RECURSIVE SelectCasesRun(_, _)
SelectCasesRun(r, cases) ==
    IF cases = <<>> THEN r
    ELSE SelectCasesRun(SelectCase(r, Head(cases)), Tail(cases))

(* Mutant of SelectCases: every case that can proceed is run. *)
SelectCases_All(ready) ==
    IF ready = {"sigChan", "logDone"} THEN {<<"sigChan", "logDone">>}
    ELSE {<<c>> : c \in ready}

(* select: one of the cases that can proceed, whichever. *)
SelectCases(ready) == {<<c>> : c \in ready}

(* The value a case takes from its channel. *)
Received(a, cases) ==
    [a EXCEPT !.sigChan = IF "sigChan" \in Range(cases) THEN 0 ELSE @,
              !.logDone = IF "logDone" \in Range(cases) THEN <<>> ELSE @]

(* Mutant of SelectEnter: a select with a timeout case, which runs when no
   other case can proceed. *)
SelectEnter_TimesOut ==
    /\ run.pc = "select"
    /\ IF Ready = {}
       THEN /\ run' = [run EXCEPT !.pc = "done", !.err = TRUE,
                                  !.outcome = "timed out"]
            /\ UNCHANGED att
       ELSE \E cases \in SelectCases(Ready) :
               /\ run' = SelectCasesRun([run EXCEPT !.ready = Ready], cases)
               /\ att' = Received(att, cases)
    /\ UNCHANGED <<sup, rd>>
    /\ UNCHANGED <<storeVars, stateVars>>

(* runRun reaches the select: it runs a case that can proceed, and waits when
   none can. *)
SelectEnter ==
    /\ run.pc = "select"
    /\ IF Ready = {}
       THEN /\ run' = [run EXCEPT !.pc = "parked"]
            /\ UNCHANGED att
       ELSE \E cases \in SelectCases(Ready) :
               /\ run' = SelectCasesRun([run EXCEPT !.ready = Ready], cases)
               /\ att' = Received(att, cases)
    /\ UNCHANGED <<sup, rd>>
    /\ UNCHANGED <<storeVars, stateVars>>

(* runRun runs the case it was woken for. *)
SelectWake ==
    /\ run.pc = "woken"
    /\ \E cases \in SelectCases(run.ready) :
          /\ run' = SelectCasesRun(run, cases)
          /\ att' = Received(att, cases)
    /\ UNCHANGED <<sup, rd>>
    /\ UNCHANGED <<storeVars, stateVars>>

(* runRun has returned and the process exits. What a journalctl that is
   still running prints after that is not followed. *)
RunExit ==
    /\ run.pc = "done"
    /\ run' = NoRun
    /\ att' = NoAttach
    /\ UNCHANGED <<sup, rd>>
    /\ UNCHANGED <<storeVars, stateVars>>

(* The job of a unit ends; systemd-run --collect unloads the unit. *)
UnitExit(unit) ==
    /\ unit \in sup.active
    /\ sup' = [sup EXCEPT !.active = @ \ {unit}]
    /\ UNCHANGED <<run, att, rd>>
    /\ UNCHANGED <<storeVars, stateVars>>

---------------------------------------------------------------------------
(* The commands that act on one job: stop, rm, logs. Each runs in one piece;
   rd holds what it did: the steps it took (trace), the requests it sent to
   systemd and journalctl (reqs), the steps that failed, the warnings it
   printed, its error and the rows before it. *)

StopSignals == {"", "SIGINT"}

(* Mutant of OnJobNil: the command goes on to systemd with the token. *)
OnJobNil_AsksSystemd(token) == <<Request("stop", token)>>

(* The requests a command sends when FindJobByPartial gave nil: none, it
   returns "job not found". *)
OnJobNil(token) == <<>>

(* Where runStop goes after KillUnit: to StopUnit, an error is a warning. *)
AfterKillUnit(err) == "stop"

(* Mutant of AfterStopUnit: the error of StopUnit is a warning. *)
AfterStopUnit_Warns(err) == "update"

(* Where runStop goes after StopUnit. *)
AfterStopUnit(err) == IF err THEN "done" ELSE "update"

(* Mutant of StopUpdateResult: the error of UpdateJobState is returned. *)
StopUpdateResult_Error(err) == err

(* runStop's error after UpdateJobState: none, a failure is a warning and
   the command prints "Stopped". *)
StopUpdateResult(err) == FALSE

(* Where runRm goes after StopUnit (and ResetFailedUnit with --purge-unit):
   to DeleteJob, an error is a warning. *)
AfterRmStopUnit(err) == "delete"

(* What a command leaves when job == nil. *)
NotFound(op, token) ==
    [op |-> op, token |-> token, trace |-> <<>>, reqs |-> OnJobNil(token),
     failed |-> {}, warnings |-> <<>>, err |-> TRUE,
     outcome |-> "job not found", pre |-> jobs]

(* s when the step was taken. *)
If(taken, s) == IF taken THEN s ELSE <<>>

(* jr stop [--signal s] <id|unit>. killErr, stopErr and updErr are the
   results of KillUnit, StopUnit and UpdateJobState. *)
runStop(token, stopSignal, killErr, stopErr, updErr) ==
    /\ rd = NoRead
    /\ Idle
    /\ run.pc = "idle"
    /\ LET job == FoundJob(token)
           unit == job[1].Unit
           kill == stopSignal # ""
           stop == ~kill \/ AfterKillUnit(killErr) = "stop"
           update == stop /\ AfterStopUnit(stopErr) = "update"
           r == [NotFound("runStop", token) EXCEPT
                   !.trace = If(kill, <<"kill">>) \o If(stop, <<"stop">>)
                                \o If(update, <<"update">>),
                   !.reqs = If(kill, <<Request("kill", unit)>>)
                               \o If(stop, <<Request("stop", unit)>>),
                   !.failed = Range(If(kill /\ killErr, <<"kill">>)
                                       \o If(stop /\ stopErr, <<"stop">>)
                                       \o If(update /\ updErr, <<"update">>)),
                   !.warnings =
                       If(kill /\ killErr /\ stop, <<"failed to send signal">>)
                       \o If(stop /\ stopErr /\ update,
                             <<"failed to stop unit">>)
                       \o If(update /\ updErr,
                             <<"failed to update job state">>),
                   !.err = ~update \/ StopUpdateResult(updErr),
                   !.outcome = IF update THEN "stopped"
                               ELSE IF stop THEN "failed to stop unit"
                               ELSE "failed to send signal"]
       IN  IF job = <<>>
           THEN /\ rd' = NotFound("runStop", token)
                /\ UNCHANGED <<jobs, sup>>
           ELSE /\ rd' = r
                /\ sup' = IF stop /\ ~stopErr
                          THEN [sup EXCEPT !.active = @ \ {unit}] ELSE sup
                /\ jobs' = IF update /\ ~updErr
                           THEN StateUpdated(jobs, job[1].ID, "stopped")
                           ELSE jobs
    /\ UNCHANGED <<seq, had, now, ret>>
    /\ UNCHANGED <<stateVars, run, att>>

(* jr rm [--stop] [--purge-unit] <id|unit>. stopErr, resetErr and delErr
   are the results of StopUnit, ResetFailedUnit and DeleteJob. *)
runRm(token, rmStop, rmPurgeUnit, stopErr, resetErr, delErr) ==
    /\ rd = NoRead
    /\ Idle
    /\ run.pc = "idle"
    /\ LET job == FoundJob(token)
           unit == job[1].Unit
           reset == rmStop /\ rmPurgeUnit
           delete == ~rmStop \/ AfterRmStopUnit(stopErr) = "delete"
           r == [NotFound("runRm", token) EXCEPT
                   !.trace = If(rmStop, <<"stop">>) \o If(reset, <<"reset">>)
                                \o If(delete, <<"delete">>),
                   !.reqs = If(rmStop, <<Request("stop", unit)>>)
                               \o If(reset, <<Request("reset", unit)>>),
                   !.failed = Range(If(rmStop /\ stopErr, <<"stop">>)
                                       \o If(reset /\ resetErr, <<"reset">>)
                                       \o If(delete /\ delErr, <<"delete">>)),
                   !.warnings =
                       If(rmStop /\ stopErr /\ delete, <<"failed to stop unit">>)
                       \o If(reset /\ resetErr, <<"failed to reset-failed">>),
                   !.err = ~delete \/ delErr,
                   !.outcome = IF ~delete THEN "failed to stop unit"
                               ELSE IF delErr THEN "failed to delete job"
                               ELSE "removed"]
       IN  IF job = <<>>
           THEN /\ rd' = NotFound("runRm", token)
                /\ UNCHANGED <<jobs, sup>>
           ELSE /\ rd' = r
                /\ sup' = IF rmStop /\ ~stopErr
                          THEN [sup EXCEPT !.active = @ \ {unit}] ELSE sup
                /\ jobs' = IF delete /\ ~delErr
                           THEN {j \in jobs : j.ID # job[1].ID}
                           ELSE jobs
    /\ UNCHANGED <<seq, had, now, ret>>
    /\ UNCHANGED <<stateVars, run, att>>

(* Mutant of runLogs: the job whose logs are shown is marked "running". *)
runLogs_MarksState(token, logErr) ==
    /\ rd = NoRead
    /\ Idle
    /\ run.pc = "idle"
    /\ LET job == FoundJob(token)
       IN  IF job = <<>>
           THEN /\ rd' = NotFound("runLogs", token)
                /\ UNCHANGED jobs
           ELSE /\ rd' = [NotFound("runLogs", token) EXCEPT
                             !.trace = <<"logs">>,
                             !.reqs = <<Request("logs", job[1].Unit)>>,
                             !.failed = IF logErr THEN {"logs"} ELSE {},
                             !.err = logErr,
                             !.outcome = IF logErr THEN "logs failed"
                                         ELSE "logs shown"]
                /\ jobs' = {IF j.ID = job[1].ID
                            THEN [j EXCEPT !.LastKnownState =
                                               ValidString("running")]
                            ELSE j : j \in jobs}
    /\ UNCHANGED <<seq, had, now, ret>>
    /\ UNCHANGED <<stateVars, runVars>>

(* jr logs <id|unit>: the result is that of systemd.Logs, which runs
   journalctl for the unit. *)
runLogs(token, logErr) ==
    /\ rd = NoRead
    /\ Idle
    /\ run.pc = "idle"
    /\ LET job == FoundJob(token)
       IN  IF job = <<>>
           THEN rd' = NotFound("runLogs", token)
           ELSE rd' = [NotFound("runLogs", token) EXCEPT
                          !.trace = <<"logs">>,
                          !.reqs = <<Request("logs", job[1].Unit)>>,
                          !.failed = IF logErr THEN {"logs"} ELSE {},
                          !.err = logErr,
                          !.outcome = IF logErr THEN "logs failed"
                                      ELSE "logs shown"]
    /\ UNCHANGED <<storeVars, stateVars, runVars>>

---------------------------------------------------------------------------
(* jr prune: cmd.runPrune and cmd.parseDuration. *)

(* Values of --older-than that name a duration, and values that name none.
   None has a fraction or a unit below the second. *)
GoodDurations ==
    {<<"1", "s">>, <<"1", "m">>, <<"2", "h">>, <<"7", "d">>,
     <<"1", "h", "1", "m">>, <<"0">>}
BadDurations ==
    {<<"a", "b", "c">>, <<"7">>, <<"7", "x">>, <<"d">>, <<"7", "d", "d">>,
     <<"7", "d", "a", "y", "s">>, <<"h", "7">>}

(* time.Second, time.Minute, time.Hour and the 24 * time.Hour of
   parseDuration, in ticks. *)
UnitTicks(unit) ==
    IF unit = <<"s">> THEN TicksPerSec
    ELSE IF unit = <<"m">> THEN 60 * TicksPerSec
    ELSE IF unit = <<"h">> THEN 60 * 60 * TicksPerSec
    ELSE IF unit = <<"d">> THEN 24 * 60 * 60 * TicksPerSec
    ELSE 0

(* The leading run of characters of s that are not digits. *)
RECURSIVE ScanUnit(_)
ScanUnit(s) ==
    IF s # <<>> /\ ~IsDigit(Head(s))
    THEN <<Head(s)>> \o ScanUnit(Tail(s))
    ELSE <<>>

(* The loop of time.ParseDuration: digits and a unit, again and again. *)
RECURSIVE ParseGroups(_)
ParseGroups(s) ==
    IF s = <<>> THEN [err |-> FALSE, d |-> 0]
    ELSE LET digits == ScanNumber(s)
             afterDigits == SubSeq(s, Len(digits) + 1, Len(s))
             unit == ScanUnit(afterDigits)
             rest == ParseGroups(SubSeq(afterDigits, Len(unit) + 1, Len(afterDigits)))
         IN  IF digits = <<>> \/ "_" \in Range(digits)
                  \/ unit \notin {<<"s">>, <<"m">>, <<"h">>}
                  \/ rest.err
             THEN [err |-> TRUE, d |-> 0]
             ELSE [err |-> FALSE,
                   d |-> DecimalValue(digits) * UnitTicks(unit) + rest.d]

(* time.ParseDuration of a string without a sign. *)
ParseDuration(s) ==
    IF s = <<"0">> THEN [err |-> FALSE, d |-> 0]
    ELSE IF s = <<>> THEN [err |-> TRUE, d |-> 0]
    ELSE ParseGroups(s)

(* The run of characters of s up to the first blank. *)
RECURSIVE ScanWord(_)
ScanWord(s) ==
    IF s # <<>> /\ Head(s) # " "
    THEN <<Head(s)>> \o ScanWord(Tail(s))
    ELSE <<>>

(* fmt.Sscanf(s, "%d%s", &n, &unit) of a string without a sign, then the
   switch on unit. *)
parseDuration(s) ==
    LET t == SkipSpace(s)
        digits == ScanNumber(t)
        unit == ScanWord(SkipSpace(SubSeq(t, Len(digits) + 1, Len(t))))
    IN  IF digits = <<>> \/ "_" \in Range(digits) \/ unit = <<>>
        THEN ParseDuration(s)
        ELSE IF unit \in {<<"d">>, <<"h">>, <<"m">>}
        THEN [err |-> FALSE, d |-> DecimalValue(digits) * UnitTicks(unit)]
        ELSE ParseDuration(s)

(* jr prune [--keep n] [--older-than s] [--failed-only]; the empty
   pruneOlderThan is the flag left out. *)
runPrune(pruneKeep, pruneOlderThan, pruneFailedOnly) ==
    /\ rd = NoRead
    /\ Idle
    /\ run.pc = "idle"
    /\ LET p == IF pruneOlderThan # <<>> THEN parseDuration(pruneOlderThan)
                ELSE [err |-> FALSE, d |-> 0]
       IN  IF p.err
           THEN /\ rd' = [op |-> "runPrune", pruneKeep |-> pruneKeep,
                          pruneOlderThan |-> pruneOlderThan,
                          pruneFailedOnly |-> pruneFailedOnly,
                          err |-> TRUE, pre |-> jobs]
                /\ UNCHANGED jobs
           ELSE /\ jobs' \in PruneOutcomes(pruneKeep, p.d, pruneFailedOnly)
                /\ rd' = [op |-> "runPrune", pruneKeep |-> pruneKeep,
                          pruneOlderThan |-> pruneOlderThan,
                          pruneFailedOnly |-> pruneFailedOnly,
                          err |-> FALSE, pre |-> jobs]
    /\ UNCHANGED <<seq, had, now, ret>>
    /\ UNCHANGED <<stateVars, runVars>>

---------------------------------------------------------------------------
(* Specifications. *)

(* The registry after InitDB on a fresh data directory. *)
Init ==
    /\ jobs = {}
    /\ seq = 0
    /\ had = {}
    /\ now = 0
    /\ ret = NoCall
    /\ info = CHOOSE i \in UnitInfos : TRUE
    /\ out = NoOut
    /\ san = NoSan
    /\ gen = <<>>
    /\ rd = NoRead
    /\ run = NoRun
    /\ sup = [active |-> {}, started |-> {}]
    /\ att = NoAttach

Next ==
    \/ \E unit \in UnitsSoFar : CreateJob(<<"a", "b">>, unit)
    \/ \E token \in Tokens : FindJobByPartial(token)
    \/ \E limit \in Limits, all \in BOOLEAN : ListJobs(limit, all)
    \/ \E id \in Ids : DeleteJob(id)
    \/ \E keep \in Keeps, olderThan \in OlderThans, failedOnly \in BOOLEAN :
          PruneJobs(keep, olderThan, failedOnly)
    \/ \E id \in Ids, state \in States : UpdateJobState(id, state)
    \/ Tick
    \/ Return

Spec == Init /\ [][Next]_vars

(* The registry filled with jobs of several names and searched by name. *)
NextNames ==
    \/ \E name \in Names : CreateJob(name, UnitName(seq + 1))
    \/ \E name \in Prefixes, limit \in Limits : ListJobsByName(name, limit)
    \/ Tick
    \/ Return

SpecNames == Init /\ [][NextNames]_vars

(* GetStateString applied to every snapshot. *)
InitState ==
    /\ jobs = {}
    /\ seq = 0
    /\ had = {}
    /\ now = 0
    /\ ret = NoCall
    /\ info \in UnitInfos
    /\ out = NoOut
    /\ san = NoSan
    /\ gen = <<>>
    /\ rd = NoRead
    /\ run = NoRun
    /\ sup = [active |-> {}, started |-> {}]
    /\ att = NoAttach

NextState ==
    \/ CallGetStateString
    \/ NextSnapshot

SpecState == InitState /\ [][NextState]_vars

(* The read paths over a registry that is being filled. The units asked of
   ShowUnits directly may repeat, and there may be none. *)
UnitLists ==
    {<<>>} \cup {<<u>> : u \in Units} \cup {<<u, v>> : u, v \in Units}

(* Tokens given to jr status: an id, a unit, and tokens that are neither. *)
StatusTokens == {Itoa(1), UnitName(MaxJobs), <<"1", "a">>, <<"a">>}

NextRead ==
    \/ /\ rd = NoRead
       /\ \E unit \in UnitsSoFar : CreateJob(<<"a", "b">>, unit)
    \/ Return
    \/ /\ Idle
       /\ \E units \in UnitLists, sys \in Systemctl : CallShowUnits(units, sys)
    \/ /\ Idle
       /\ \E listLast \in Limits, listAll \in BOOLEAN, sys \in Systemctl :
              runList(listLast, listAll, sys)
    \/ /\ Idle
       /\ \E token \in StatusTokens, sys \in Systemctl : runStatus(token, sys)
    \/ ReadDone

SpecRead == Init /\ [][NextRead]_vars

(* jr run, again and again, with jr prune between two runs. *)
NextRun ==
    \/ \E runEnv \in EnvLists, runProperties \in PropertyLists,
          runAttach \in BOOLEAN : RunStart(runEnv, runProperties, runAttach)
    \/ RunLaunch
    \/ RunPersist
    \/ LogsStart
    \/ LogLine
    \/ \E err \in BOOLEAN : LogsEnd(err)
    \/ \E group \in BOOLEAN : Interrupt(group)
    \/ SelectEnter
    \/ SelectWake
    \/ RunExit
    \/ \E unit \in Units : UnitExit(unit)
    \/ \E pruneKeep \in Keeps,
          pruneOlderThan \in {<<>>} \cup GoodDurations \cup BadDurations,
          pruneFailedOnly \in BOOLEAN :
             runPrune(pruneKeep, pruneOlderThan, pruneFailedOnly)
    \/ ReadDone

SpecRun == Init /\ [][NextRun]_vars

(* runRun is the main goroutine of its process, which the Go scheduler runs
   whenever it can proceed: once a case of the select can proceed a waiting
   runRun is resumed. Signals and the end of journalctl come from outside
   and are not forced. *)
SpecRunFair == SpecRun /\ WF_vars(SelectEnter) /\ WF_vars(SelectWake)

(* jr run (without --attach) now and then, and between two runs the
   commands on one job: stop, rm, logs, status. *)
NextWrite ==
    \/ RunStart(<<>>, <<>>, FALSE)
    \/ RunLaunch
    \/ RunPersist
    \/ RunExit
    \/ \E unit \in Units : UnitExit(unit)
    \/ \E token \in StatusTokens, stopSignal \in StopSignals,
          killErr \in BOOLEAN, stopErr \in BOOLEAN, updErr \in BOOLEAN :
             runStop(token, stopSignal, killErr, stopErr, updErr)
    \/ \E token \in StatusTokens, rmStop \in BOOLEAN, rmPurgeUnit \in BOOLEAN,
          stopErr \in BOOLEAN, resetErr \in BOOLEAN, delErr \in BOOLEAN :
             runRm(token, rmStop, rmPurgeUnit, stopErr, resetErr, delErr)
    \/ \E token \in StatusTokens, logErr \in BOOLEAN : runLogs(token, logErr)
    \/ /\ Idle
       /\ run.pc = "idle"
       /\ \E token \in StatusTokens, sys \in Systemctl : runStatus(token, sys)
    \/ ReadDone

SpecWrite == Init /\ [][NextWrite]_vars

(* Runs of systemctl for the commands taken together: a failure, no output,
   one block, two blocks. *)
SystemctlFew ==
    {[err |-> TRUE, output |-> <<>>],
     [err |-> FALSE, output |-> <<>>],
     [err |-> FALSE, output |-> <<Line("ActiveState", "active")>>],
     [err |-> FALSE,
      output |-> <<Line("ActiveState", "active"), EmptyLine,
                   Line("ActiveState", "inactive"),
                   Line("ExecMainStatus", "1")>>]}

(* All the commands, one at a time: run with and without --attach, stop,
   rm, logs, status, list and prune. *)
NextCommands ==
    \/ \E runAttach \in BOOLEAN : RunStart(<<>>, <<>>, runAttach)
    \/ RunLaunch
    \/ RunPersist
    \/ LogsStart
    \/ LogLine
    \/ \E err \in BOOLEAN : LogsEnd(err)
    \/ \E group \in BOOLEAN : Interrupt(group)
    \/ SelectEnter
    \/ SelectWake
    \/ RunExit
    \/ \E unit \in Units : UnitExit(unit)
    \/ \E token \in StatusTokens, stopErr \in BOOLEAN, updErr \in BOOLEAN :
          runStop(token, "", FALSE, stopErr, updErr)
    \/ \E token \in StatusTokens, delErr \in BOOLEAN :
          runRm(token, FALSE, FALSE, FALSE, FALSE, delErr)
    \/ \E token \in StatusTokens, logErr \in BOOLEAN : runLogs(token, logErr)
    \/ /\ Idle
       /\ run.pc = "idle"
       /\ \E token \in StatusTokens, sys \in SystemctlFew :
             runStatus(token, sys)
    \/ /\ Idle
       /\ run.pc = "idle"
       /\ \E listLast \in Limits, listAll \in BOOLEAN, sys \in SystemctlFew :
             runList(listLast, listAll, sys)
    \/ \E pruneKeep \in Keeps, pruneFailedOnly \in BOOLEAN :
          runPrune(pruneKeep, <<>>, pruneFailedOnly)
    \/ ReadDone

SpecCommands == Init /\ [][NextCommands]_vars

(* sanitizeName called on name after name. *)
NextSanitize ==
    \/ \E name \in SanNames : CallSanitizeName(name)
    \/ SanitizeDone

SpecSanitize == Init /\ [][NextSanitize]_vars

(* GenerateUnitName called twice, at the same tick or at different ones. *)
NextGenerate ==
    \/ \E name \in GenNames, entropy \in Entropies :
          CallGenerateUnitName(name, entropy)
    \/ GenForget
    \/ Tick

SpecGenerate == Init /\ [][NextGenerate]_vars

---------------------------------------------------------------------------
(* Notions the claims are stated with. *)

(* The whole token is an integer: an optional sign, then digits only. *)
IsInteger(s) ==
    LET d == IF s # <<>> /\ Head(s) \in {"+", "-"} THEN Tail(s) ELSE s
    IN  d # <<>> /\ \A i \in 1..Len(d) : IsDigit(d[i])

(* s starts with prefix, character for character. *)
HasPrefix(s, prefix) ==
    Len(prefix) <= Len(s) /\ SubSeq(s, 1, Len(prefix)) = prefix

(* No two rows of S carry the same creation timestamp. *)
DistinctTimes(S) ==
    \A j, k \in S : j # k => j.CreatedAtUTC # k.CreatedAtUTC

(* rows lists, most recent first, the n most recently created rows of S. *)
MostRecentFirst(rows, S, n) ==
    /\ Len(rows) = Min(n, Cardinality(S))
    /\ \A i \in 1..Len(rows) : rows[i] \in S
    /\ \A i, k \in 1..Len(rows) :
          i < k => rows[i].CreatedAtUTC > rows[k].CreatedAtUTC
    /\ \A i \in 1..Len(rows) : \A j \in S :
          j.CreatedAtUTC > rows[i].CreatedAtUTC => \E k \in 1..Len(rows) : rows[k] = j

(* K holds n most recently created rows of S (all of S when it has fewer). *)
MostRecent(K, S, n) ==
    /\ K \subseteq S
    /\ Cardinality(K) = Min(n, Cardinality(S))
    /\ \A j \in K, k \in S \ K : j.CreatedAtUTC >= k.CreatedAtUTC

(* The number of units the output reports something about: the blocks that
   empty lines separate. *)
Reported(output) ==
    IF output = <<>> THEN 0
    ELSE 1 + Cardinality({i \in 1..Len(output) : output[i] = EmptyLine})

(* The value has no "=" separator. *)
Malformed(e) == \A i \in 1..Len(e) : e[i] # "="

(* The attach session of the run has ended. *)
SessionEnded == run.pc = "done" /\ run.paths # <<>>

(* The requests that would touch the life of a unit. *)
LifecycleOps == {"stop", "kill", "reset-failed"}

---------------------------------------------------------------------------
(* Claims. *)

(* C1: after any sequence of create, delete, prune and update_state calls
   no two rows share a unit; a create whose unit a row of the store holds
   fails and leaves every row as it was. *)
C1_UnitUnique ==
    /\ \A j, k \in jobs : j.Unit = k.Unit => j = k
    /\ (ret.op = "CreateJob" /\ \E j \in ret.pre : j.Unit = ret.unit)
          => ret.err /\ jobs = ret.pre

C1_Witness ==
    /\ ret.op = "CreateJob"
    /\ ret.err
    /\ \E j \in jobs : j.Unit = ret.unit /\ j.LastKnownState.Valid

(* C2: resolve looks up by id exactly when the whole token is an integer;
   any other token, such as digits followed by other characters, is looked
   up by unit and never by id. *)
C2_IdLookupOnlyForIntegers ==
    ret.op = "FindJobByPartial" =>
        (ret.lookup = "id" <=> IsInteger(ret.partial))

(* C3: resolve never falls back: an integer token whose id no row has gives
   nil; a token that is no integer and that no row has as its unit gives nil
   and no lookup by id is made. *)
C3_NoFallback ==
    ret.op = "FindJobByPartial" =>
        /\ (IsInteger(ret.partial) /\ ret.lookup = "id"
                /\ ~\E j \in jobs : j.ID = ret.key[1])
              => ret.job = <<>>
        /\ (~IsInteger(ret.partial) /\ ~\E j \in jobs : j.Unit = ret.partial)
              => ret.job = <<>> /\ ret.lookup # "id"

(* C4: for every row of the store, resolve of its id in decimal and resolve
   of its unit return that row; resolve of a token that is no number and no
   row's unit returns nil and no error. *)
C4_ResolveFindsStoredJobs ==
    ret.op = "FindJobByPartial" =>
        /\ \A j \in jobs :
              ret.partial \in {Itoa(j.ID), j.Unit} => ret.job = <<j>>
        /\ (~IsInteger(ret.partial) /\ ~\E j \in jobs : j.Unit = ret.partial)
              => ret.job = <<>> /\ ~ret.err

(* C5: when the rows carry distinct creation timestamps, ListJobs(k, false)
   returns the min(k, n) most recently created rows, most recent first, and
   ListJobs(_, true) returns every row, most recent first, whatever the
   limit. *)
C5_ListOrdered ==
    (ret.op = "ListJobs" /\ DistinctTimes(jobs)) =>
        /\ ret.all => MostRecentFirst(ret.rows, jobs, Cardinality(jobs))
        /\ (~ret.all /\ ret.limit >= 0)
              => MostRecentFirst(ret.rows, jobs, ret.limit)

C5_Witness ==
    /\ ret.op = "ListJobs"
    /\ ~ret.all
    /\ ret.limit = 1
    /\ Cardinality(jobs) = 2
    /\ DistinctTimes(jobs)
    /\ Len(ret.rows) = 1

(* C6: ListJobsByName returns only rows whose name starts with the prefix,
   character for character and case for case, most recent first and cut to
   the limit; when fewer rows than the limit have the prefix all of them are
   returned. *)
C6_ExactPrefix ==
    ret.op = "ListJobsByName" =>
        LET match == {j \in jobs : HasPrefix(j.Name, ret.name)}
        IN  /\ \A i \in 1..Len(ret.rows) : ret.rows[i] \in match
            /\ \A i, k \in 1..Len(ret.rows) :
                  i < k => ret.rows[i].CreatedAtUTC >= ret.rows[k].CreatedAtUTC
            /\ ret.limit >= 0 => Len(ret.rows) <= ret.limit
            /\ (ret.limit < 0 \/ Cardinality(match) < ret.limit)
                  => match = {ret.rows[i] : i \in 1..Len(ret.rows)}

(* C7: PruneJobs removes a row if and only if every active filter holds for
   it: (a) with keep > 0 it is not among the keep most recently created rows
   of the whole store before the call, (b) with olderThan set its creation
   timestamp is before the timestamp of now minus olderThan, (c) with
   failedOnly its last known state is "failed". *)
C7_PruneConjunction ==
    ret.op = "PruneJobs" =>
        /\ jobs \subseteq ret.pre
        /\ \E K \in SUBSET ret.pre :
              /\ ret.keep > 0 => MostRecent(K, ret.pre, ret.keep)
              /\ \A j \in ret.pre :
                    j \notin jobs <=>
                        /\ ret.keep > 0 \/ ret.olderThan > 0 \/ ret.failedOnly
                        /\ ret.keep > 0 => j \notin K
                        /\ ret.olderThan > 0 =>
                              j.CreatedAtUTC < FormatRFC3339(now - ret.olderThan)
                        /\ ret.failedOnly =>
                              j.LastKnownState = ValidString("failed")

C7_Witness ==
    /\ ret.op = "PruneJobs"
    /\ ret.keep > 0 /\ ret.olderThan > 0 /\ ret.failedOnly
    /\ Cardinality(ret.pre) = 2
    /\ Cardinality(jobs) = 1
    /\ \A j \in ret.pre : j.CreatedAtUTC < FormatRFC3339(now - ret.olderThan)

(* C8: PruneJobs with no active filter (keep <= 0, no olderThan, failedOnly
   false) succeeds and leaves the store as it was. *)
C8_PruneNoFilterNoOp ==
    (ret.op = "PruneJobs" /\ ret.keep <= 0 /\ ret.olderThan = 0 /\ ~ret.failedOnly)
        => jobs = ret.pre /\ ~ret.err

C8_Witness ==
    /\ ret.op = "PruneJobs"
    /\ ret.keep <= 0 /\ ret.olderThan = 0 /\ ~ret.failedOnly
    /\ Cardinality(jobs) = 2

(* C9: with only the keep filter active and rows of distinct creation
   timestamps, PruneJobs(k) leaves exactly the min(k, n) most recently
   created rows. *)
C9_PruneKeepsMostRecent ==
    (ret.op = "PruneJobs" /\ ret.keep > 0 /\ ret.olderThan = 0 /\ ~ret.failedOnly
        /\ DistinctTimes(ret.pre)) =>
        /\ jobs \subseteq ret.pre
        /\ Cardinality(jobs) = Min(ret.keep, Cardinality(ret.pre))
        /\ \A j \in jobs, k \in ret.pre \ jobs : j.CreatedAtUTC > k.CreatedAtUTC

C9_Witness ==
    /\ ret.op = "PruneJobs"
    /\ ret.keep = 1 /\ ret.olderThan = 0 /\ ~ret.failedOnly
    /\ DistinctTimes(ret.pre)
    /\ Cardinality(ret.pre) = 2
    /\ Cardinality(jobs) = 1

(* C10: GetStateString maps active to active whatever the exit status,
   inactive to failed when the exit status is neither empty nor "0" and to
   exited otherwise, failed to failed, and any other activity to itself; the
   result depends on the activity and the exit status alone. *)
C10_StateMapping ==
    out.called =>
        LET a == out.info.ActiveState
            e == out.info.ExecMainStatus
        IN  /\ a = "active" => out.state = "active"
            /\ (a = "inactive" /\ e # "" /\ e # "0") => out.state = "failed"
            /\ (a = "inactive" /\ (e = "" \/ e = "0")) => out.state = "exited"
            /\ a = "failed" => out.state = "failed"
            /\ a \notin {"active", "inactive", "failed"} => out.state = a
            /\ \A i \in UnitInfos :
                  (i.ActiveState = a /\ i.ExecMainStatus = e)
                      => GetStateString(i) = out.state

C10_Witness ==
    /\ out.called
    /\ out.info.ActiveState = "inactive"
    /\ out.info.ExecMainStatus = "1"
    /\ out.state = "failed"

(* C11: a job whose snapshot is missing, or there with every field but the
   unit empty, is reported by list and status in state "unknown". *)
C11_EmptySnapshotUnknown ==
    (rd.op \in {"runList", "runStatus"} /\ ~rd.err) =>
        \A i \in 1..Len(rd.rows) :
            LET u == rd.rows[i].Unit
            IN  (u \notin DOMAIN rd.infos \/ rd.infos[u] = ZeroInfo(u))
                    => rd.states[i] = "unknown"

(* C12: when the run of systemctl fails, list and status end without an
   error and report state "unknown" for every job they were asked about. *)
C12_QueryFailureUnknown ==
    (rd.op \in {"runList", "runStatus"} /\ rd.queryFailed) =>
        /\ ~rd.err
        /\ \A i \in 1..Len(rd.rows) : rd.states[i] = "unknown"

(* C13: a ShowUnits that succeeds returns a map whose keys are exactly the
   units asked for; each entry carries its unit, and the entry of a unit the
   output reports nothing about is the zeroed snapshot of that unit. *)
C13_EntryForEveryUnit ==
    (rd.op = "ShowUnits" /\ ~rd.err) =>
        /\ DOMAIN rd.infos = Range(rd.units)
        /\ \A u \in DOMAIN rd.infos : rd.infos[u].Unit = u
        /\ \A u \in Range(rd.units) :
              (\A i \in 1..Len(rd.units) :
                    rd.units[i] = u => i > Reported(rd.sys.output))
                  => rd.infos[u] = ZeroInfo(u)

C13_Witness ==
    /\ rd.op = "ShowUnits"
    /\ ~rd.err
    /\ Len(rd.units) = 2
    /\ rd.units[1] # rd.units[2]
    /\ Reported(rd.sys.output) = 1
    /\ rd.infos[rd.units[1]].ActiveState = "active"
    /\ rd.infos[rd.units[2]] = ZeroInfo(rd.units[2])

(* C14: when the interrupt is there and the log-follow has not completed as
   the select decides, the session takes the interrupt case; a session that
   took it returns no error, has sent no stop, kill or reset request, and
   leaves the job's row as CreateJob wrote it. *)
C14_DetachOnInterrupt ==
    /\ (SessionEnded /\ run.ready = {"sigChan"}) => run.paths = <<"sigChan">>
    /\ (SessionEnded /\ "sigChan" \in Range(run.paths)) =>
          /\ ~run.err
          /\ \A i \in 1..Len(run.reqs) : run.reqs[i].op \notin LifecycleOps
          /\ jobs = run.pre \cup
                {Job(run.id, FormatRFC3339(now), <<"a", "b">>, run.unit)}

C14_Witness ==
    /\ SessionEnded
    /\ run.ready = {"sigChan"}
    /\ run.outcome = "detached"
    /\ att.journalctl = "running"
    /\ run.unit \in sup.active

(* C15: when the log-follow has completed and no interrupt is there as the
   select decides, the session's result is the result of the log-follow, an
   error or none, and an interrupt that comes later does not change it. *)
C15_StreamEndResult ==
    (SessionEnded /\ run.ready = {"logDone"}) =>
        /\ run.paths = <<"logDone">>
        /\ run.err = att.logs[1]

C15_Witness ==
    /\ SessionEnded
    /\ run.ready = {"logDone"}
    /\ run.err
    /\ att.sigChan = 1

(* C16: whatever the order of the interrupt and the end of the log-follow,
   also when both are there as the select decides, a session runs exactly
   one of the two cases to its end and leaves the select once. *)
C16_ExactlyOnePath ==
    /\ Len(run.paths) <= 1
    /\ run.pc \in {"select", "parked", "woken"} => run.paths = <<>>
    /\ (run.pc = "done" /\ run.outcome \in {"detached", "log stream ended"})
          => Len(run.paths) = 1
    /\ (run.pc = "done" /\ run.ready # {}) => Len(run.paths) = 1

C16_Witness ==
    /\ SessionEnded
    /\ run.ready = {"sigChan", "logDone"}
    /\ Len(run.paths) = 1

(* C17: once the interrupt case has detached the session, journalctl runs
   no longer and no further line is shown. *)
C17_NoOutputAfterDetach ==
    (SessionEnded /\ run.outcome = "detached") =>
        /\ att.journalctl \notin {"starting", "running"}
        /\ att.shown = run.shown

(* C18: runRun generates the unit, then launches, then persists; a row is
   made only for a unit whose launch succeeded, and after a failed launch
   there is no insert and the store is as it was. *)
C18_LaunchThenPersist ==
    /\ \A j \in jobs : j.Unit \in sup.started
    /\ \A i \in 1..Len(run.trace) :
          i <= 3 /\ run.trace[i] = <<"generate", "launch", "persist">>[i]
    /\ "persist" \in Range(run.trace) =>
          /\ run.unit \in sup.started
          /\ run.reqs[1] = Request("launch", run.unit)
    /\ (run.pc = "done" /\ run.outcome = "failed to start unit") =>
          /\ run.err
          /\ "persist" \notin Range(run.trace)
          /\ jobs = run.pre

C18_Witness ==
    /\ run.pc = "done"
    /\ run.outcome = "failed to start unit"
    /\ jobs # {}
    /\ run.unit \notin sup.started

(* C19: when the launch succeeded and the insert failed, runRun returns the
   error "job started but failed to record", has sent the one launch request
   and nothing else (no stop, no kill, no second launch), has generated and
   inserted once, and the store has no row more than before. *)
C19_StartedNotRecorded ==
    (run.pc = "done" /\ "persist" \in Range(run.trace) /\ run.id = 0) =>
        /\ run.err
        /\ run.outcome = "job started but failed to record"
        /\ run.reqs = <<Request("launch", run.unit)>>
        /\ run.trace = <<"generate", "launch", "persist">>
        /\ jobs = run.pre

C19_Witness ==
    /\ run.pc = "done"
    /\ run.outcome = "job started but failed to record"
    /\ run.unit \in sup.active
    /\ ~\E j \in jobs : j.Unit = run.unit

(* C20: a run with an --env or --property value without "=" ends in an error
   before any request to systemd and any insert; a prune whose --older-than
   names no duration ends in an error and deletes no row. *)
C20_InvalidInputNoEffect ==
    /\ (run.pc # "idle"
          /\ \/ \E i \in 1..Len(run.runEnv) : Malformed(run.runEnv[i])
             \/ \E i \in 1..Len(run.runProperties) :
                   Malformed(run.runProperties[i])) =>
          /\ run.pc = "done"
          /\ run.err
          /\ run.reqs = <<>>
          /\ run.trace = <<>>
          /\ jobs = run.pre
    /\ (rd.op = "runPrune" /\ rd.pruneOlderThan \in BadDurations) =>
          /\ rd.err
          /\ jobs = rd.pre

C20_Witness ==
    /\ run.pc = "done"
    /\ run.outcome = "invalid property format"
    /\ run.runEnv # <<>>
    /\ jobs # {}
    /\ sup.active = {}

---------------------------------------------------------------------------
(* A token resolves in a table when FindJobByPartial finds a row for it. *)
Resolves(token, S) ==
    \E j \in S : IF parseInt(token).err THEN j.Unit = token
                 ELSE j.ID = parseInt(token).id

(* C21: a failure of systemd on a write path ends the command with an error
   and no later step: run after a failed launch (no insert), stop after a
   failed signal (no stop request) and after a failed stop (no state
   update), rm --stop after a failed stop (no delete). *)
C21_WriteAbortsOnFailure ==
    /\ (run.pc = "done" /\ run.outcome = "failed to start unit") =>
          /\ run.err
          /\ "persist" \notin Range(run.trace)
          /\ jobs = run.pre
    /\ (rd.op = "runStop" /\ "kill" \in rd.failed) =>
          /\ rd.err
          /\ "stop" \notin Range(rd.trace)
    /\ (rd.op = "runStop" /\ "stop" \in rd.failed) =>
          /\ rd.err
          /\ "update" \notin Range(rd.trace)
          /\ jobs = rd.pre
    /\ (rd.op = "runRm" /\ "stop" \in rd.failed) =>
          /\ rd.err
          /\ "delete" \notin Range(rd.trace)
          /\ jobs = rd.pre

(* C21 as amended: run after a failed launch and stop after a failed stop
   end with an error and no later step (no insert, no state update); a
   failed signal in stop and a failed stop in rm --stop are warnings, after
   which stop still asks systemd to stop the unit and rm still deletes the
   row. *)
C21_AbortsOnLaunchOrStopFailure ==
    /\ (run.pc = "done" /\ run.outcome = "failed to start unit") =>
          /\ run.err
          /\ "persist" \notin Range(run.trace)
          /\ jobs = run.pre
    /\ (rd.op = "runStop" /\ "stop" \in rd.failed) =>
          /\ rd.err
          /\ rd.outcome = "failed to stop unit"
          /\ "update" \notin Range(rd.trace)
          /\ jobs = rd.pre
    /\ (rd.op = "runStop" /\ "kill" \in rd.failed) =>
          /\ "failed to send signal" \in Range(rd.warnings)
          /\ rd.reqs[Len(rd.reqs)].op = "stop"
          /\ rd.err <=> "stop" \in rd.failed
    /\ (rd.op = "runRm" /\ "stop" \in rd.failed) =>
          /\ "failed to stop unit" \in Range(rd.warnings)
          /\ "delete" \in Range(rd.trace)
          /\ rd.err <=> "delete" \in rd.failed
          /\ ~rd.err => /\ ~Resolves(rd.token, jobs)
                         /\ jobs \subseteq rd.pre
                         /\ Cardinality(jobs) = Cardinality(rd.pre) - 1

(* A stop whose signal and whose stop request both failed. *)
C21_Witness ==
    /\ rd.op = "runStop"
    /\ rd.failed = {"kill", "stop"}
    /\ jobs # {}

(* C22: status, logs, stop and rm on a token that resolves to no row end
   with the error "job not found", send nothing to systemd or journalctl
   and leave the table as it was. *)
C22_NotFoundNoSideEffect ==
    [][(/\ rd' # rd
        /\ rd'.op \in {"runStatus", "runLogs", "runStop", "runRm"}
        /\ ~Resolves(rd'.token, jobs)) =>
           /\ rd'.err
           /\ jobs' = jobs /\ seq' = seq
           /\ sup' = sup /\ att' = att
           /\ rd'.op = "runStatus" => ~rd'.queried /\ rd'.rows = <<>>
           /\ rd'.op # "runStatus" =>
                 rd'.outcome = "job not found" /\ rd'.reqs = <<>>]_vars

(* A stop on a token that no row of a table with rows answers to. *)
C22_Witness ==
    /\ rd.op = "runStop"
    /\ rd.outcome = "job not found"
    /\ rd.pre # {}
    /\ sup.active # {}

---------------------------------------------------------------------------
(* The columns of a row that no statement of db.go writes after the INSERT,
   as far as Job carries them. *)
SameButState(j, k) ==
    /\ k.ID = j.ID
    /\ k.CreatedAtUTC = j.CreatedAtUTC
    /\ k.Name = j.Name
    /\ k.Unit = j.Unit

(* C23: UpdateJobState(id, state) on an id the table holds sets that row's
   last_known_state to state and its last_state_at_utc to the time of the
   call, and leaves the row's other columns and every other row as they
   were. *)
C23_UpdateSetsStateOnly ==
    (ret.op = "UpdateJobState" /\ \E j \in ret.pre : j.ID = ret.id) =>
        /\ Cardinality(jobs) = Cardinality(ret.pre)
        /\ \A j \in ret.pre :
              IF j.ID = ret.id
              THEN \E k \in jobs :
                      /\ SameButState(j, k)
                      /\ k.LastKnownState = ValidString(ret.state)
                      /\ k.LastStateAtUTC = ValidString(FormatRFC3339(now))
              ELSE j \in jobs

(* An update of one of two rows, which overwrites an earlier state of the
   row with another one. *)
C23_Witness ==
    /\ ret.op = "UpdateJobState"
    /\ Cardinality(ret.pre) = 2
    /\ \E j \in ret.pre :
          /\ j.ID = ret.id
          /\ j.LastKnownState.Valid
          /\ j.LastKnownState.String # ret.state

(* C24: UpdateJobState(id, state) on an id the table does not hold changes
   no row and returns an error. *)
C24_UpdateAbsentIsError ==
    (ret.op = "UpdateJobState" /\ \A j \in ret.pre : j.ID # ret.id) =>
        /\ jobs = ret.pre
        /\ ret.err

(* C25: DeleteJob(id) removes the row with that id and no other one, and
   returns no error; GetJobByID(id) then finds nothing; when the table holds
   no such row it is left as it was. *)
C25_DeleteExactlyOne ==
    ret.op = "DeleteJob" =>
        /\ ~ret.err
        /\ GetJobByID(ret.id) = <<>>
        /\ \A j \in ret.pre : j.ID # ret.id => j \in jobs
        /\ jobs \subseteq ret.pre
        /\ (\A j \in ret.pre : j.ID # ret.id) => jobs = ret.pre

(* A delete that removed one of two rows. *)
C25_Witness ==
    /\ ret.op = "DeleteJob"
    /\ Cardinality(ret.pre) = 2
    /\ \E j \in ret.pre : j.ID = ret.id
    /\ jobs # {}

(* C26: no step changes the id, created_at_utc, name or unit of a row the
   table holds: as long as a row with that id is there, these columns are
   those of the INSERT. *)
C26_ImmutableColumns ==
    [][\A j \in jobs : \A k \in jobs' : k.ID = j.ID => SameButState(j, k)]_vars

(* A row whose state columns were written while another row was there. *)
C26_Witness ==
    /\ ret.op = "UpdateJobState"
    /\ Cardinality(jobs) = 2
    /\ \E j \in jobs : j.ID = ret.id /\ j.LastKnownState.Valid

(* C27: a row that enters the table never carries the unit of a row the
   table held before, also when that row is gone. *)
C27_UnitNeverReused ==
    [][\A k \in jobs' :
          (\A j \in jobs : j.ID # k.ID) => k.Unit \notin had]_vars

---------------------------------------------------------------------------
(* Two calls of GenerateUnitName with the same name within one second. *)
SameNameSameSecond(a, b) ==
    /\ a.name = b.name
    /\ a.at \div TicksPerSec = b.at \div TicksPerSec

(* C28: two calls of GenerateUnitName with the same name within the same
   second, also within the same millisecond, return different units. *)
C28_AlwaysDifferent ==
    Len(gen) = 2 => (SameNameSameSecond(gen[1], gen[2]) =>
                        gen[1].unit # gen[2].unit)

(* C28 as amended: two such calls return the same unit exactly when they
   fall on the same tick of the ulid clock and draw the same characters of
   entropy among those that String()[:16] keeps; entropy that differs only
   in what the cut drops does not tell the units apart. *)
C28_DifferentUnlessSameDraw ==
    Len(gen) = 2 => (SameNameSameSecond(gen[1], gen[2]) =>
        (gen[1].unit = gen[2].unit <=>
            /\ gen[1].at = gen[2].at
            /\ SubSeq(gen[1].entropy, 1, ShortLen - TimeLen)
                  = SubSeq(gen[2].entropy, 1, ShortLen - TimeLen)))

(* Two calls in one second at different ticks, with different units. *)
C28_Witness ==
    /\ Len(gen) = 2
    /\ SameNameSameSecond(gen[1], gen[2])
    /\ gen[1].at # gen[2].at
    /\ gen[1].entropy = gen[2].entropy
    /\ gen[1].unit # gen[2].unit

(* The runes sanitizeName is said to keep. *)
SafeChars == Range(LowerChars) \cup Range(DigitChars) \cup {".", "-", "_"}

(* C29: sanitizeName gives one rune for each rune of the name, in order: the
   lower-case letter for an ASCII upper-case letter, the rune itself for an
   ASCII lower-case letter, a digit, '.', '-' and '_', and '_' for every
   other rune, a non-ASCII one included. *)
C29_OneForOne ==
    san.called =>
        /\ Len(san.result) = Len(san.name)
        /\ \A i \in 1..Len(san.name) :
              LET r == san.name[i]
                  w == san.result[i]
              IN  /\ r \in Range(UpperChars) =>
                        \E k \in 1..Len(UpperChars) :
                            UpperChars[k] = r /\ LowerChars[k] = w
                  /\ r \in SafeChars => w = r
                  /\ r \notin SafeChars \cup Range(UpperChars) => w = "_"

(* A name with an upper-case letter, a non-ASCII rune and a run of two runes
   of the default case. *)
C29_Witness ==
    /\ san.called
    /\ san.name = <<"Z", "U+00C9", " ">>
    /\ san.result = <<"z", "_", "_">>

(* C30: sanitizeName of a result of sanitizeName is that result, and a name
   of lower-case letters, digits, '.', '-' and '_' only is its own result. *)
C30_Idempotent ==
    san.called =>
        /\ sanitizeName(san.result) = san.result
        /\ Range(san.name) \subseteq SafeChars => san.result = san.name

(* A name that sanitizeName changes. *)
C30_Witness ==
    /\ san.called
    /\ san.result # san.name
    /\ Len(san.name) = MaxName

---------------------------------------------------------------------------
(* C31: when the query of systemd succeeded, list and status report for a
   job the state GetStateString gives the snapshot of its unit, whatever the
   row's last_known_state is. *)
C31_FreshSnapshotAlone ==
    (rd.op \in {"runList", "runStatus"} /\ rd.queried /\ ~rd.queryFailed) =>
        \A i \in 1..Len(rd.rows) :
            /\ rd.rows[i].Unit \in DOMAIN rd.infos
            /\ rd.states[i] = GetStateString(rd.infos[rd.rows[i].Unit])

(* A list that shows as active a job whose row says "stopped". *)
C31_Witness ==
    /\ rd.op = "runList"
    /\ rd.queried /\ ~rd.queryFailed
    /\ \E i \in 1..Len(rd.rows) :
          /\ rd.rows[i].LastKnownState = ValidString("stopped")
          /\ rd.states[i] = "active"

(* C32: every successful CreateJob returns an id above every id given out
   before, sqlite_sequence being the largest of those, also when rows have
   been deleted in between; and no row carries an id above it. *)
C32_IdsIncrease ==
    [][/\ (ret'.op = "CreateJob" /\ ret' # ret /\ ~ret'.err) =>
             /\ ret'.id > seq
             /\ seq' = ret'.id
             /\ \A j \in jobs : j.ID < ret'.id
       /\ seq' >= seq
       /\ \A j \in jobs' : j.ID <= seq']_vars

(* An insert into a table from which the row with the highest id is gone. *)
C32_Witness ==
    /\ ret.op = "CreateJob"
    /\ ~ret.err
    /\ ret.id = 2
    /\ ret.pre = {}

(* C33: after a successful CreateJob(name, unit, ...) the id is not 0,
   GetJobByID(id) and GetJobByUnit(unit) give the same row, and that row has
   the name and unit given and a NULL last_known_state. *)
C33_CreateThenGet ==
    (ret.op = "CreateJob" /\ ~ret.err) =>
        /\ ret.id # 0
        /\ GetJobByID(ret.id) # <<>>
        /\ GetJobByID(ret.id) = GetJobByUnit(ret.unit)
        /\ Cardinality({j \in jobs : j.ID = ret.id \/ j.Unit = ret.unit}) = 1
        /\ GetJobByID(ret.id)[1].Name = ret.name
        /\ GetJobByID(ret.id)[1].Unit = ret.unit
        /\ ~GetJobByID(ret.id)[1].LastKnownState.Valid

(* A second row has been inserted next to one that has a state. *)
C33_Witness ==
    /\ ret.op = "CreateJob"
    /\ ~ret.err
    /\ \E j \in ret.pre : j.LastKnownState.Valid
(* runRun is in the select of the attach session. *)
Streaming == run.pc \in {"select", "parked", "woken"}

(* C34: the attach session leaves the select only for a case that can
   proceed, a signal on sigChan or a result on logDone, and there is no
   other way out of it (no timeout); once one of the two is there the
   session returns. *)
C34_StreamsUntilEvent ==
    /\ [][(Streaming /\ ~Streaming') =>
             /\ Ready # {}
             /\ run'.pc = "done"
             /\ run'.paths \in {<<"sigChan">>, <<"logDone">>}]_vars
    /\ (Streaming /\ Ready # {}) ~> (run.pc = "done")

C34_Witness ==
    /\ run.pc = "done"
    /\ run.paths = <<"logDone">>
    /\ att.shown = 1
    /\ att.sigChan = 0
    /\ ~run.err

(* C40: a session has one goroutine for the log-follow, which sends once on
   logDone; the send proceeds whenever journalctl has ended, also after the
   case <-sigChan has run and no receive of logDone is left, and logDone
   never holds more than its capacity. *)
C40_SendNeverBlocks ==
    /\ att.sent <= 1
    /\ Len(att.logDone) <= LogDoneCap
    /\ att.journalctl # "none" => (run.runAttach /\ att.notify)
    /\ att.journalctl = "exited" =>
          /\ att.sent = 1
          /\ att.logDone = att.logs \/ run.paths = <<"logDone">>
    /\ att.journalctl \in {"none", "starting", "running", "signalled"} =>
          (att.sent = 0 /\ att.logDone = <<>>)

C40_Witness ==
    /\ run.pc = "done"
    /\ run.paths = <<"sigChan">>
    /\ att.journalctl = "exited"
    /\ att.sent = 1
    /\ att.logDone # <<>>

(* C35: stop updates the state only after a stop request that systemd
   answered without error, and the update sets the job's row to "stopped";
   after a failed stop request the rows are as before and the command ends
   with an error; a failed update is a warning, the rows are as before and
   the command ends without error. *)
C35_StoppedOnlyAfterStop ==
    (rd.op = "runStop" /\ rd.trace # <<>>) =>
        LET job == FoundJob(rd.token)[1]
            n == Len(rd.trace)
        IN  /\ "update" \in Range(rd.trace) =>
                  /\ n >= 2 /\ rd.trace[n] = "update" /\ rd.trace[n - 1] = "stop"
                  /\ rd.reqs[Len(rd.reqs)] = Request("stop", job.Unit)
                  /\ "stop" \notin rd.failed
                  /\ ~rd.err
            /\ jobs # rd.pre => ("update" \in Range(rd.trace) \ rd.failed)
            /\ ("update" \in Range(rd.trace) \ rd.failed) =>
                  /\ job.LastKnownState = ValidString("stopped")
                  /\ jobs = StateUpdated(rd.pre, job.ID, "stopped")
            /\ "stop" \in rd.failed =>
                  (jobs = rd.pre /\ rd.err /\ "update" \notin Range(rd.trace))
            /\ "update" \in rd.failed =>
                  /\ jobs = rd.pre
                  /\ ~rd.err
                  /\ rd.outcome = "stopped"
                  /\ "failed to update job state" \in Range(rd.warnings)

C35_Witness ==
    /\ rd.op = "runStop"
    /\ rd.failed = {"update"}
    /\ rd.warnings = <<"failed to update job state">>
    /\ jobs = rd.pre
    /\ \E j \in jobs : j.LastKnownState = ValidString("stopped")

(* C36: PruneJobs with keep = k > 0 leaves k most recently created rows of
   the store (all of them when it has at most k) in place, whatever
   olderThan and failedOnly are; rows of the same creation second count as
   equally recent. With keep at least the number of rows nothing is
   deleted. *)
C36_KeepProtects ==
    (ret.op = "PruneJobs" /\ ret.keep > 0) =>
        /\ ~ret.err
        /\ \E K \in SUBSET ret.pre :
              MostRecent(K, ret.pre, ret.keep) /\ K \subseteq jobs
        /\ \A j \in ret.pre :
              Cardinality({k \in ret.pre : k.CreatedAtUTC >= j.CreatedAtUTC})
                  <= ret.keep => j \in jobs
        /\ ret.keep >= Cardinality(ret.pre) => jobs = ret.pre

C36_Witness ==
    /\ ret.op = "PruneJobs"
    /\ ret.keep = 2 /\ ret.olderThan > 0 /\ ret.failedOnly
    /\ Cardinality(ret.pre) = 2
    /\ jobs = ret.pre
    /\ \A j \in ret.pre :
          /\ j.LastKnownState = ValidString("failed")
          /\ j.CreatedAtUTC < FormatRFC3339(now - ret.olderThan)

(* The lines of the i-th block of the output, the blocks being what empty
   lines separate. *)
BlockOf(output, i) ==
    LET gaps == {n \in 1..Len(output) : output[n] = EmptyLine}
        Before(n) == Cardinality({g \in gaps : g < n})
    IN  SelectSeq([n \in 1..Len(output) |->
                      IF n \notin gaps /\ Before(n) = i - 1
                      THEN <<output[n]>> ELSE <<>>],
                  LAMBDA l : l # <<>>)

(* The value a block gives for a property: that of its last line for the
   property, "" when it has none. *)
ValueIn(block, key) ==
    LET at == {n \in 1..Len(block) : block[n][1].key = key}
    IN  IF at = {} THEN ""
        ELSE block[CHOOSE n \in at : \A m \in at : m <= n][1].val

(* C37: for a request of distinct units and an output of at most as many
   blocks, the snapshot of the i-th unit holds the activity, sub-state, exit
   status, pid and timestamps of the i-th block, and nothing of any other
   block. *)
C37_BlockToUnit ==
    (rd.op = "ShowUnits" /\ ~rd.err
        /\ (\A i, k \in 1..Len(rd.units) : i # k => rd.units[i] # rd.units[k])
        /\ Reported(rd.sys.output) <= Len(rd.units)) =>
        \A i \in 1..Len(rd.units) :
            LET b == BlockOf(rd.sys.output, i)
            IN  rd.infos[rd.units[i]] =
                    [Unit |-> rd.units[i],
                     ActiveState |-> ValueIn(b, "ActiveState"),
                     SubState |-> ValueIn(b, "SubState"),
                     ExecMainStatus |-> ValueIn(b, "ExecMainStatus"),
                     ExecMainPID |-> ValueIn(b, "ExecMainPID"),
                     ExecMainStartTimestamp |->
                         ValueIn(b, "ExecMainStartTimestamp"),
                     ExecMainExitTimestamp |->
                         ValueIn(b, "ExecMainExitTimestamp")]

C37_Witness ==
    /\ rd.op = "ShowUnits"
    /\ ~rd.err
    /\ Len(rd.units) = 2
    /\ rd.units[1] # rd.units[2]
    /\ Reported(rd.sys.output) = 2
    /\ rd.infos[rd.units[1]].ActiveState = "failed"
    /\ rd.infos[rd.units[1]].SubState = ""
    /\ rd.infos[rd.units[2]].SubState = "dead"
    /\ rd.infos[rd.units[2]].ExecMainPID = "0"

(* C38: whatever commands have run, the last_known_state of every row is
   NULL or "stopped", and a prune with --failed-only has deleted no row. *)
C38_NeverFailed ==
    /\ \A j \in jobs : j.LastKnownState \in {NullString, ValidString("stopped")}
    /\ (rd.op = "runPrune" /\ rd.pruneFailedOnly) => (~rd.err /\ jobs = rd.pre)

C38_Witness ==
    /\ rd.op = "runPrune"
    /\ rd.pruneFailedOnly
    /\ rd.pruneKeep <= 0
    /\ Cardinality(jobs) = 2
    /\ \E j \in jobs : j.LastKnownState = ValidString("stopped")
    /\ \E j \in jobs : j.LastKnownState = NullString

(* C39: a step of list, status or logs, and every step taken while an
   attach session is set up, leaves the rows and sqlite_sequence as they
   were, whether the run of systemctl or journalctl failed or not. *)
C39_ReadsLeaveStore ==
    [][(\/ rd' # rd /\ rd'.op \in {"runList", "runStatus", "runLogs"}
        \/ att # NoAttach) =>
           (jobs' = jobs /\ seq' = seq)]_vars

C39_Witness ==
    /\ rd.op = "runStatus"
    /\ rd.queried /\ rd.queryFailed
    /\ \E j \in jobs :
          /\ j = rd.rows[1]
          /\ j.LastKnownState = ValidString("stopped")
          /\ j.Unit \notin sup.active

====
